---- MODULE Spec2Model ----
(***************************************************************************)
(* libmeta: JPEG segment scan (container/jpeg/jpeg.rs, the nom based       *)
(* formats/jpeg/segment.rs), the metadata entry points (Jpeg::parse,       *)
(* Meta::parse, libmeta::new) and the TIFF/Exif IFD decode                 *)
(* (meta/exif/exif.rs, field.rs, ifd.rs).                                  *)
(*                                                                         *)
(* Bytes are the integers 0..255.  A slice `remain` of a buffer `input` is *)
(* always a suffix of it in the code, so it is modelled by the number of   *)
(* bytes consumed: cur = input.len() - remain.len().                       *)
(*                                                                         *)
(* A Result is a record [status, kind, msg, src, data]:                    *)
(*   status  "none" (not returned yet), "ok", "err" or "panic"             *)
(*   kind    the error constructor the code calls (parse, read_failed,     *)
(*           truncated, unknown_header, read, jpeg, offset_zero)           *)
(*   msg     the message it passes                                         *)
(*   src     the chained source error: "Incomplete" / "Error" for nom,     *)
(*           "UnexpectedEof" for io, "" for none                           *)
(*   data    the bytes given to with_data, <<>> for none                   *)
(***************************************************************************)
EXTENDS Integers, Sequences, FiniteSets, TLC

VARIABLES
    entry,      \* scan: the entry point that was called
    stream,     \* scan: all bytes of the byte source
    chain,      \* scan: bytes chained in front of the reader (header.chain(reader))
    pos,        \* scan: number of bytes consumed from the byte source
    pc,         \* scan: position in the entry point's code
    header,     \* scan: the header bytes read
    marker,     \* scan: the marker read by the current iteration
    seglen,     \* scan: the payload length of the current segment
    segments,   \* scan: Vec<Segment> collected so far
    result,     \* scan: the value returned by the entry point
    jfif,       \* Meta.jfif cache (a Result holding the value when ok)
    exif,       \* Meta.exif cache
    short,      \* scan ghost: the failing read wanted more bytes than were left
    payload,    \* exif: the APP1 payload handed to Exif::parse
    epc,        \* exif: position in Exif::parse / parse_ifds
    endian,     \* exif: Endian selected by the byte-order mark
    cur,        \* exif: bytes of exif_data consumed (exif_data.len() - remain.len())
    ifds,       \* exif: Vec<Ifd> collected by parse_ifds
    eresult,    \* exif: the value returned by Exif::parse
    lastoff,    \* exif ghost: the value of the last next-IFD offset read by the walk
    checks,     \* build: integer overflow checks on (debug) or off (release)
    logical,    \* endian symmetry: the logical IFD0 field set
    pair,       \* endian symmetry: the decodes of its two encodings
    calls,      \* repeated calls: what the calls made before this one returned
    fn,         \* function calls: the function called and its arguments
    ret,        \* function calls: the value it returned (None until it returns)
    loc         \* function calls: the locals of the call and the state of its reader

scanVars == <<entry, stream, chain, pos, pc, header, marker, seglen, segments,
              result, jfif, exif, short>>
exifVars == <<payload, epc, endian, cur, ifds, eresult, lastoff, checks>>
pairVars == <<logical, pair>>
fnVars == <<fn, ret, loc>>
vars == <<scanVars, exifVars, pairVars, calls, fnVars>>

-----------------------------------------------------------------------------
(* Sequences and bytes *)

Take(s, n) == SubSeq(s, 1, n)
Drop(s, n) == SubSeq(s, n + 1, Len(s))
Min(a, b) == IF a < b THEN a ELSE b
Max(a, b) == IF a > b THEN a ELSE b

RECURSIVE Concat(_)
Concat(ss) == IF ss = <<>> THEN <<>> ELSE Head(ss) \o Concat(Tail(ss))

\* the sequences of length 0..n over the set S
SeqsUpTo(S, n) == UNION {[1..k -> S] : k \in 0..n}

\* index of the first b in s, 0 when there is none
RECURSIVE IndexOf(_, _, _)
IndexOf(s, b, i) ==
    IF i > Len(s) THEN 0
    ELSE IF s[i] = b THEN i ELSE IndexOf(s, b, i + 1)

\* the element of a one-element set: {F(x) : x \in {e}} computes e once
\* and names it x
The(S) == CHOOSE x \in S : TRUE

\* s.starts_with(p)
StartsWith(s, p) == Len(s) >= Len(p) /\ Take(s, Len(p)) = p

-----------------------------------------------------------------------------
(* Results *)

NoResult == [status |-> "none", kind |-> "", msg |-> "", src |-> "", data |-> <<>>]
OkResult == [status |-> "ok", kind |-> "", msg |-> "", src |-> "", data |-> <<>>]
Err(kind, msg, src) ==
    [status |-> "err", kind |-> kind, msg |-> msg, src |-> src, data |-> <<>>]
Panic(msg) == [status |-> "panic", kind |-> "", msg |-> msg, src |-> "", data |-> <<>>]

\* with_data: the bytes an error carries
WithData(r, d) == [r EXCEPT !.data = d]

-----------------------------------------------------------------------------
(* nom streaming primitives, on a buffer and the number of bytes consumed *)

Avail(input, at) == Len(input) - at

\* nom::bytes::streaming::tag: compares the bytes that are there, then the length
NomTag(input, at, t) ==
    LET n == Min(Max(Avail(input, at), 0), Len(t))
    IN  IF SubSeq(input, at + 1, at + n) # Take(t, n) THEN "Error"
        ELSE IF Avail(input, at) < Len(t) THEN "Incomplete"
        ELSE "Ok"

\* nom::number::streaming::{be,le}_u16 / u32 and nom::bytes::streaming::take
NomNeed(input, at, n) == IF Avail(input, at) < n THEN "Incomplete" ELSE "Ok"

U16(input, at, e) ==
    IF e = "Big" THEN input[at + 1] * 256 + input[at + 2]
    ELSE input[at + 2] * 256 + input[at + 1]

U32(input, at, e) ==
    IF e = "Big"
    THEN ((input[at + 1] * 256 + input[at + 2]) * 256 + input[at + 3]) * 256 + input[at + 4]
    ELSE ((input[at + 4] * 256 + input[at + 3]) * 256 + input[at + 2]) * 256 + input[at + 1]

\* u16::to_be_bytes, u32::to_be_bytes
ToBeBytes16(v) == <<v \div 256, v % 256>>
ToBeBytes32(v) ==
    <<v \div 16777216, (v \div 65536) % 256, (v \div 256) % 256, v % 256>>

\* Option<T>
None == <<>>
Some(x) == <<x>>

\* u32 and u64 values too wide for the checker's integers: 16-bit limbs, the
\* least significant first (a u32 has 2 limbs, a u64 has 4)
Limb == 65536

\* `x as u64` of a u32, and the cast that would keep the 32 bits
AsU32(x) == x
AsU64(x) == x \o <<0, 0>>

\* x * k in the width of x; `over` is what did not fit
RECURSIVE MulCarry(_, _, _)
MulCarry(x, k, carry) ==
    IF x = <<>> THEN [val |-> <<>>, over |-> carry]
    ELSE LET p == Head(x) * k + carry
             rest == MulCarry(Tail(x), k, p \div Limb)
         IN  [val |-> <<p % Limb>> \o rest.val, over |-> rest.over]

\* the u64 expression `a * k`: an overflow panics when overflow checks are on
\* and wraps when they are off
Mul64(x, k, chk) ==
    LET m == MulCarry(x, k, 0)
    IN  IF m.over # 0 /\ chk THEN [status |-> "panic", val |-> <<>>]
        ELSE [status |-> "ok", val |-> m.val]

-----------------------------------------------------------------------------
(* Exif: constants *)

EXIF_IDENTIFIER == <<69, 120, 105, 102>>
EXIF_PADDING == <<0, 0>>
TIFF_VERSION == <<0, 42>>
BIG_ENDIAN == <<77, 77>>
LITTLE_ENDIAN == <<73, 73>>

UNSIGNED_BYTE == 1
ASCII_STRING == 2
UNSIGNED_SHORT == 3
UNSIGNED_LONG == 4
UNSIGNED_RATIONAL == 5
SIGNED_BYTE == 6
UNDEFINED == 7
SIGNED_SHORT == 8
SIGNED_LONG == 9
SIGNED_RATIONAL == 10
SINGLE_FLOAT == 11
DOUBLE_FLOAT == 12

EXIF_SUB_IFD_OFFSET == 34665

-----------------------------------------------------------------------------
(* Exif: IfdField *)

\* IfdField::new; `at` is a ghost: where the field's 12-byte header starts
IfdFieldNew(e, tag, format, components, at) ==
    [endian |-> e, tag |-> tag, format |-> format, components |-> components,
     offset |-> None, data |-> None, at |-> at]

NoField == IfdFieldNew("Big", 0, 0, 0, 0)

\* IfdField::length
FieldLength(f) ==
    CASE f.format = UNSIGNED_BYTE -> f.components
      [] f.format = ASCII_STRING -> f.components
      [] f.format = UNSIGNED_SHORT -> f.components * 2
      [] f.format = UNSIGNED_LONG -> f.components * 4
      [] f.format = UNSIGNED_RATIONAL -> f.components * 8
      [] f.format = SIGNED_BYTE -> f.components
      [] f.format = UNDEFINED -> f.components
      [] f.format = SIGNED_SHORT -> f.components * 2
      [] f.format = SIGNED_LONG -> f.components * 4
      [] f.format = SIGNED_RATIONAL -> f.components * 8
      [] f.format = SINGLE_FLOAT -> f.components * 4
      [] f.format = DOUBLE_FLOAT -> f.components * 8
      [] OTHER -> 0

\* IfdField::length (and IfdEntry::data_length) on a component count of the
\* whole u32 range: `self.components as u64 * unit`, 0 for an unknown format
Length(format, components, chk) ==
    CASE format \in {UNSIGNED_BYTE, ASCII_STRING, SIGNED_BYTE, UNDEFINED} ->
            [status |-> "ok", val |-> AsU64(components)]
      [] format \in {UNSIGNED_SHORT, SIGNED_SHORT} -> Mul64(AsU64(components), 2, chk)
      [] format \in {UNSIGNED_LONG, SIGNED_LONG, SINGLE_FLOAT} ->
            Mul64(AsU64(components), 4, chk)
      [] format \in {UNSIGNED_RATIONAL, SIGNED_RATIONAL, DOUBLE_FLOAT} ->
            Mul64(AsU64(components), 8, chk)
      [] OTHER -> [status |-> "ok", val |-> <<0, 0, 0, 0>>]

\* IfdField::to_ascii: the bytes up to the first NUL
RECURSIVE UpToNul(_)
UpToNul(d) ==
    IF d = <<>> \/ Head(d) = 0 THEN <<>> ELSE <<Head(d)>> \o UpToNul(Tail(d))

ToAscii(f) == IF f.data = None THEN None ELSE Some(UpToNul(f.data[1]))

\* IfdField::to_unsigned
ToUnsigned(f) ==
    IF f.data = None THEN None
    ELSE LET d == f.data[1]
             e == IF f.endian = "Little" THEN "Little" ELSE "Big"
         IN  CASE f.format = UNSIGNED_BYTE ->
                    IF Len(d) >= 1 THEN Some(d[1]) ELSE None
               [] f.format = UNSIGNED_SHORT ->
                    IF Len(d) >= 2 THEN Some(U16(d, 0, e)) ELSE None
               [] f.format = UNSIGNED_LONG ->
                    IF Len(d) >= 4 THEN Some(U32(d, 0, e)) ELSE None
               [] OTHER -> None

\* Rational::try_from
RationalTryFrom(val, e) ==
    IF Len(val) < 8 THEN Err("parse", ": rational must be 8 bytes long", "")
    ELSE [status |-> "ok", num |-> U32(val, 0, e), den |-> U32(val, 4, e)]

\* IfdField::to_rationals: one Rational per 8 bytes of data; the slice
\* data[i..i + 8] panics when fewer than 8 bytes are left
RECURSIVE Rationals(_, _)
Rationals(d, e) ==
    IF d = <<>> THEN [status |-> "ok", val |-> <<>>]
    ELSE IF Len(d) < 8 THEN [status |-> "panic", val |-> <<>>]
    ELSE LET r == RationalTryFrom(Take(d, 8), e)
             rest == Rationals(Drop(d, 8), e)
         IN  IF rest.status # "ok" THEN rest
             ELSE [status |-> "ok", val |-> <<[num |-> r.num, den |-> r.den]>> \o rest.val]

ToRationals(f) ==
    IF f.data = None THEN [status |-> "err", val |-> <<>>]
    ELSE Rationals(f.data[1], f.endian)

\* IfdField::to_signed: the unsigned value `as isize`, the sign bit not extended
ToSigned(f) ==
    IF f.data = None THEN None
    ELSE LET d == f.data[1]
             e == IF f.endian = "Little" THEN "Little" ELSE "Big"
         IN  CASE f.format = SIGNED_BYTE ->
                    IF Len(d) >= 1 THEN Some(d[1]) ELSE None
               [] f.format = SIGNED_SHORT ->
                    IF Len(d) >= 2 THEN Some(U16(d, 0, e)) ELSE None
               [] f.format = SIGNED_LONG ->
                    IF Len(d) >= 4 THEN Some(U32(d, 0, e)) ELSE None
               [] OTHER -> None

\* the tags IfdField::to_string renders through an enum: Orientation,
\* ResolutionUnit, YCbCrPositioning, SceneCaptureType, GainControl, Contrast,
\* Saturation, Sharpness
EnumTags == {274, 296, 531, 41990, 41991, 41992, 41993, 41994}

\* a rendered String: the converted value, or the "Debug [format: .." fallback
Rendered(v) == [status |-> "ok", kind |-> "value", val |-> v]
Placeholder(f) ==
    [status |-> "ok", kind |-> "debug",
     val |-> <<f.format, f.components, FieldLength(f),
               IF f.data = None THEN <<0>> ELSE f.data[1]>>]
Unwound == [status |-> "panic", kind |-> "panic", val |-> <<>>]

\* Some(x) => x, None => the fallback
OrPlaceholder(f, o) == IF o = None THEN Placeholder(f) ELSE Rendered(o[1])

\* the numeric values each enum tag defines (the comments of the enums, the
\* arms of their From<u16> / From<u8>)
DefinedValues(tag) ==
    CASE tag = 274 -> 1..8
      [] tag = 296 -> 1..3
      [] tag = 531 -> 1..2
      [] tag = 41990 -> 0..3
      [] tag = 41991 -> 0..4
      [] OTHER -> 0..2

\* Orientation::from, ResolutionUnit::from, YCbCrPositioning::from,
\* Scene::from, Gain::from, Contrast::from, Saturation::from, Sharpness::from
\* followed by to_string: the usize is cut to u16 (u8 for ResolutionUnit) and
\* matched, `_` giving a variant of the enum
EnumFrom(tag, val) ==
    LET v == IF tag = 296 THEN val % 256 ELSE val % 65536
    IN  CASE tag = 274 ->
               (CASE v = 2 -> "Mirror Horizontal" [] v = 3 -> "Rotate 180"
                  [] v = 4 -> "Mirror Vertical"
                  [] v = 5 -> "Mirror Horizontal and Rotate 270 CW"
                  [] v = 6 -> "Rotate 90 CW"
                  [] v = 7 -> "Mirror Horizontal and Rotate 90 CW"
                  [] v = 8 -> "Rotate 270 CW" [] OTHER -> "Horizontal")
          [] tag = 296 ->
               (CASE v = 1 -> "none" [] v = 2 -> "inches" [] v = 3 -> "cm"
                  [] OTHER -> "unknown")
          [] tag = 531 -> (IF v = 2 THEN "Co-sited" ELSE "Centered")
          [] tag = 41990 ->
               (CASE v = 0 -> "Standard" [] v = 1 -> "Landscape" [] v = 2 -> "Portrait"
                  [] v = 3 -> "Night" [] OTHER -> "Other")
          [] tag = 41991 ->
               (CASE v = 0 -> "None" [] v = 1 -> "Low gain up" [] v = 2 -> "High gain up"
                  [] v = 3 -> "Low gain down" [] OTHER -> "High gain down")
          [] tag = 41994 ->
               (CASE v = 1 -> "Soft" [] v = 2 -> "Hard" [] OTHER -> "Normal")
          [] OTHER ->
               (CASE v = 1 -> "Low" [] v = 2 -> "High" [] OTHER -> "Normal")

\* IfdField::to_string (ToString is taken by TLC): by tag for the enum tags,
\* else by format
IfdFieldToString(f) ==
    IF f.tag \in EnumTags
    THEN (IF ToUnsigned(f) = None THEN Placeholder(f)
          ELSE Rendered(EnumFrom(f.tag, ToUnsigned(f)[1])))
    ELSE CASE f.format \in {ASCII_STRING, UNDEFINED} -> OrPlaceholder(f, ToAscii(f))
           [] f.format \in {UNSIGNED_BYTE, UNSIGNED_SHORT, UNSIGNED_LONG} ->
                OrPlaceholder(f, ToUnsigned(f))
           [] f.format = UNSIGNED_RATIONAL ->
                (LET r == ToRationals(f)
                 IN  IF r.status = "panic" THEN Unwound
                     ELSE IF r.status = "ok" THEN Rendered(r.val)
                     ELSE Placeholder(f))
           [] f.format \in {SIGNED_BYTE, SIGNED_SHORT, SIGNED_LONG} ->
                OrPlaceholder(f, ToSigned(f))
           [] OTHER -> Placeholder(f)

-----------------------------------------------------------------------------
(* Exif: the parsers of meta/exif/exif.rs.  Each takes the buffer and the      *)
(* number of bytes consumed and returns a record with the Result `res`, the   *)
(* bytes consumed afterwards `cur`, and the parsed value.                     *)

\* ExifError::parse(msg).with_nom_source(x): the kind stays `parse`, whatever
\* the nom error is (errors/exif.rs, with_nom_source only stores the source)
ExifParseErr(msg, nom) == Err("parse", msg, nom)

\* parse_exif_header: terminated(tag("Exif"), tag([0, 0]))
ParseExifHeader(input) ==
    LET t1 == NomTag(input, 0, EXIF_IDENTIFIER)
        t2 == NomTag(input, Len(EXIF_IDENTIFIER), EXIF_PADDING)
        hlen == Len(EXIF_IDENTIFIER) + Len(EXIF_PADDING)
    IN  IF t1 # "Ok" THEN [res |-> ExifParseErr(": Exif header", t1), cur |-> 0]
        ELSE IF t2 # "Ok" THEN [res |-> ExifParseErr(": Exif header", t2), cur |-> 0]
        ELSE [res |-> OkResult, cur |-> hlen]

\* parse_tiff_endian: alt((tag("MM"), tag("II"))); alt tries the second
\* parser only when the first fails with Err::Error
ParseTiffEndian(input, at) ==
    LET t1 == NomTag(input, at, BIG_ENDIAN)
        t2 == NomTag(input, at, LITTLE_ENDIAN)
    IN  IF t1 = "Ok" THEN [res |-> OkResult, cur |-> at + 2, endian |-> "Big"]
        ELSE IF t1 = "Incomplete"
        THEN [res |-> ExifParseErr(": TIFF endian", t1), cur |-> at, endian |-> "Big"]
        ELSE IF t2 = "Ok" THEN [res |-> OkResult, cur |-> at + 2, endian |-> "Little"]
        ELSE [res |-> ExifParseErr(": TIFF endian", t2), cur |-> at, endian |-> "Big"]

ParseTiffVersionBig(input, at, e) ==
    IF NomNeed(input, at, 2) # "Ok"
    THEN [res |-> ExifParseErr(": TIFF version", "Incomplete"), cur |-> at, marker |-> <<>>]
    ELSE [res |-> OkResult, cur |-> at + 2, marker |-> SubSeq(input, at + 1, at + 2)]

\* parse_tiff_version: the u16 in the byte order, returned as big endian bytes
ParseTiffVersion(input, at, e) ==
    IF NomNeed(input, at, 2) # "Ok"
    THEN [res |-> ExifParseErr(": TIFF version", "Incomplete"), cur |-> at, marker |-> <<>>]
    ELSE [res |-> OkResult, cur |-> at + 2, marker |-> ToBeBytes16(U16(input, at, e))]

\* parse_ifd_data_or_offset: 4 bytes read in the byte order; returned as the
\* big endian bytes of that value and as the value; 0 is ExifError::offset_zero
ParseIfdDataOrOffsetZeroOk(input, at, e) ==
    IF NomNeed(input, at, 4) # "Ok"
    THEN [res |-> ExifParseErr(": IFD data or offset", "Incomplete"), cur |-> at,
          data |-> <<>>, offset |-> 0]
    ELSE [res |-> OkResult, cur |-> at + 4,
          data |-> ToBeBytes32(U32(input, at, e)), offset |-> U32(input, at, e)]

ParseIfdDataOrOffset(input, at, e) ==
    IF NomNeed(input, at, 4) # "Ok"
    THEN [res |-> ExifParseErr(": IFD data or offset", "Incomplete"), cur |-> at,
          data |-> <<>>, offset |-> 0]
    ELSE LET offset == U32(input, at, e)
         IN  IF offset = 0
             THEN [res |-> Err("offset_zero", "", ""), cur |-> at,
                   data |-> <<>>, offset |-> 0]
             ELSE [res |-> OkResult, cur |-> at + 4,
                   data |-> ToBeBytes32(offset), offset |-> offset]

\* parse_ifd_field_count
ParseIfdFieldCount(input, at, e) ==
    IF NomNeed(input, at, 2) # "Ok"
    THEN [res |-> ExifParseErr(": IFD field count", "Incomplete"), cur |-> at, count |-> 0]
    ELSE [res |-> OkResult, cur |-> at + 2, count |-> U16(input, at, e)]

FieldErr(res, at) == [res |-> res, cur |-> at, field |-> NoField]

\* the value of a field: out of line at `offset` when length > 4, else the
\* 4 bytes parse_ifd_data_or_offset returned.  `remain` is the position
\* after the 12-byte header.
FieldValueAtCursor(input, f, d, remain) ==
    IF FieldLength(f) > 4
    THEN IF Avail(input, remain) < FieldLength(f)
         THEN FieldErr(ExifParseErr(": IFD field data", "Incomplete"), f.at)
         ELSE [res |-> OkResult, cur |-> remain,
               field |-> [f EXCEPT !.offset = Some(d.offset),
                                   !.data = Some(SubSeq(input, remain + 1,
                                                        remain + FieldLength(f)))]]
    ELSE [res |-> OkResult, cur |-> remain, field |-> [f EXCEPT !.data = Some(d.data)]]

FieldValueTruncated(input, f, d, remain) ==
    IF FieldLength(f) > 4
    THEN LET consumed == remain
         IN  IF consumed > d.offset
             THEN FieldErr(Err("parse", ": IFD field offset is negative", ""), f.at)
             ELSE IF NomNeed(input, consumed, d.offset - consumed) # "Ok"
             THEN FieldErr(ExifParseErr(": IFD field offset", "Incomplete"), f.at)
             ELSE IF NomNeed(input, d.offset, FieldLength(f)) # "Ok"
             THEN FieldErr(ExifParseErr(": IFD field data", "Incomplete"), f.at)
             ELSE [res |-> OkResult, cur |-> remain,
                   field |-> [f EXCEPT !.offset = Some(d.offset),
                                       !.data = Some(SubSeq(input, d.offset + 1,
                                                            d.offset + FieldLength(f)))]]
    ELSE [res |-> OkResult, cur |-> remain,
          field |-> [f EXCEPT !.data = Some(Take(d.data, FieldLength(f)))]]

FieldValue(input, f, d, remain) ==
    IF FieldLength(f) > 4
    THEN LET consumed == remain
         IN  IF consumed > d.offset
             THEN FieldErr(Err("parse", ": IFD field offset is negative", ""), f.at)
             ELSE IF NomNeed(input, consumed, d.offset - consumed) # "Ok"
             THEN FieldErr(ExifParseErr(": IFD field offset", "Incomplete"), f.at)
             ELSE IF NomNeed(input, d.offset, FieldLength(f)) # "Ok"
             THEN FieldErr(ExifParseErr(": IFD field data", "Incomplete"), f.at)
             ELSE [res |-> OkResult, cur |-> remain,
                   field |-> [f EXCEPT !.offset = Some(d.offset),
                                       !.data = Some(SubSeq(input, d.offset + 1,
                                                            d.offset + FieldLength(f)))]]
    ELSE [res |-> OkResult, cur |-> remain, field |-> [f EXCEPT !.data = Some(d.data)]]

\* parse_ifd_field: tag(2) format(2) components(4) value/offset(4)
ParseIfdField(input, at, e) ==
    IF NomNeed(input, at, 2) # "Ok"
    THEN FieldErr(ExifParseErr(": IFD field tag", "Incomplete"), at)
    ELSE IF NomNeed(input, at + 2, 2) # "Ok"
    THEN FieldErr(ExifParseErr(": IFD field data format", "Incomplete"), at)
    ELSE IF NomNeed(input, at + 4, 4) # "Ok"
    THEN FieldErr(ExifParseErr(": IFD field components", "Incomplete"), at)
    ELSE The({IF d.res.status # "ok" THEN FieldErr(d.res, at)
              ELSE FieldValue(input, f, d, d.cur) :
                d \in {ParseIfdDataOrOffset(input, at + 8, e)},
                f \in {IfdFieldNew(e, U16(input, at, e), U16(input, at + 2, e),
                                   U32(input, at + 4, e), at)}})

\* Ifd::new
IfdNew(e) == [endian |-> e, fields |-> <<>>]

\* the loop of parse_ifd: n more fields from `at`, appended to the fields of ifd
RECURSIVE ParseIfdFields(_, _, _, _, _)
ParseIfdFields(input, at, e, n, ifd) ==
    IF n = 0 THEN [res |-> OkResult, cur |-> at, ifd |-> ifd]
    ELSE The({IF r.res.status # "ok" THEN [res |-> r.res, cur |-> at, ifd |-> ifd]
              ELSE ParseIfdFields(input, r.cur, e, n - 1,
                                  [ifd EXCEPT !.fields = Append(@, r.field)]) :
                r \in {ParseIfdField(input, at, e)}})

\* parse_ifd: the field count, then that many fields
ParseIfd(input, at, e) ==
    The({IF c.res.status # "ok" THEN [res |-> c.res, cur |-> at, ifd |-> IfdNew(e)]
         ELSE ParseIfdFields(input, c.cur, e, c.count, IfdNew(e)) :
           c \in {ParseIfdFieldCount(input, at, e)}})

\* the first field of fs with the tag: Ifd::field_by_tag
RECURSIVE FieldByTag(_, _)
FieldByTag(fs, tag) ==
    IF fs = <<>> THEN None
    ELSE IF Head(fs).tag = tag THEN Some(Head(fs))
    ELSE FieldByTag(Tail(fs), tag)

IterPushesSubIfd(input, ifd, e, ck) ==
    LET p == FieldByTag(ifd.fields, EXIF_SUB_IFD_OFFSET)
        v == IF p = None \/ ToUnsigned(p[1]) = None THEN 0 ELSE ToUnsigned(p[1])[1]
        r == ParseIfd(input, v, e)
    IN  IF v = 0 \/ v > Len(input) \/ r.res.status # "ok" THEN <<ifd>>
        ELSE <<ifd, [endian |-> e, fields |-> r.ifd.fields, at |-> v]>>

\* IFDs appended by one iteration of the loop of parse_ifds: the IFD parsed
\* at the offset, and nothing else
IterPushes(input, ifd, e, ck) == <<ifd>>

\* the subtraction `offset as usize - (input.len() - inner.len())`: usize
\* arithmetic; below zero it panics when overflow checks are compiled in and
\* wraps to a count no buffer holds when they are not
SkipCount(offset, consumed, ck) ==
    IF offset >= consumed THEN [status |-> "ok", n |-> offset - consumed]
    ELSE IF ck THEN [status |-> "panic", n |-> 0]
    ELSE [status |-> "wrapped", n |-> 0]

\* one iteration of the loop of parse_ifds, from `outer`.  brk: the loop
\* breaks (OffsetIsZero); off: the offset read, -1 when it could not be read
ParseIfdsIter(input, outer, e, ck) ==
    LET nothing == [res |-> OkResult, cur |-> outer, push |-> <<>>, brk |-> FALSE, off |-> -1]
        \* the IFD at the offset, once the offset is reached
        at(o) ==
            The({IF r.res.status # "ok"
                 THEN [nothing EXCEPT !.res = r.res, !.off = o.offset]
                 ELSE [res |-> OkResult, cur |-> r.cur,
                       push |-> IterPushes(input, [endian |-> r.ifd.endian,
                                                   fields |-> r.ifd.fields,
                                                   at |-> o.offset], e, ck),
                       brk |-> FALSE, off |-> o.offset] :
                   r \in {ParseIfd(input, o.offset, e)}})
        skip(o, n) ==
            IF n.status = "panic"
            THEN [nothing EXCEPT !.res = Panic("attempt to subtract with overflow"),
                                 !.off = o.offset]
            ELSE IF n.status = "wrapped" \/ NomNeed(input, o.cur, n.n) # "Ok"
            THEN [nothing EXCEPT !.res = ExifParseErr(": Offset to IFD", "Incomplete"),
                                 !.off = o.offset]
            ELSE at(o)
    IN  The({IF o.res.status # "ok"
             THEN IF o.res.kind = "offset_zero"
                  THEN [nothing EXCEPT !.brk = TRUE, !.off = 0]
                  ELSE [nothing EXCEPT !.res = o.res]
             ELSE skip(o, SkipCount(o.offset, o.cur, ck)) :
               o \in {ParseIfdDataOrOffset(input, outer, e)}})

\* parse_ifds: the loop, run to its end
RECURSIVE ParseIfds(_, _, _, _, _)
ParseIfds(input, outer, e, ck, acc) ==
    The({IF it.res.status # "ok" THEN [res |-> it.res, ifds |-> acc]
         ELSE IF it.brk THEN [res |-> OkResult, ifds |-> acc]
         ELSE ParseIfds(input, it.cur, e, ck, acc \o it.push) :
           it \in {ParseIfdsIter(input, outer, e, ck)}})

\* exif_data: what parse_exif_header leaves of the APP1 payload
ExifData(input) == Drop(input, Len(EXIF_IDENTIFIER) + Len(EXIF_PADDING))

\* the TIFF version check of Exif::parse
TiffVersionCheck(v) ==
    IF v.res.status # "ok" THEN v.res
    ELSE IF v.marker # TIFF_VERSION
    THEN WithData(Err("parse", ": TIFF version invalid", ""), v.marker)
    ELSE OkResult

\* Exif::parse, whole
ExifParse(input, ck) ==
    LET none(r) == [res |-> r, ifds |-> <<>>]
        version(d, en) ==
            The({IF TiffVersionCheck(v).status # "ok" THEN none(TiffVersionCheck(v))
                 ELSE ParseIfds(d, v.cur, en.endian, ck, <<>>) :
                   v \in {ParseTiffVersion(d, en.cur, en.endian)}})
    IN  The({IF h.res.status # "ok" THEN none(h.res)
             ELSE IF en.res.status # "ok" THEN none(en.res)
             ELSE version(d, en) :
               h \in {ParseExifHeader(input)}, d \in {ExifData(input)},
               en \in {ParseTiffEndian(ExifData(input), 0)}})

-----------------------------------------------------------------------------
(* JFIF: meta/jfif.rs *)

JFIF_IDENTIFIER == <<74, 70, 73, 70>>

JfifErr(msg, nom) == Err("parse", msg, nom)
NoJfif == [major |-> 0, minor |-> 0, density |-> 0, x_density |-> 0, y_density |-> 0,
           x_dimension |-> 0, y_dimension |-> 0, thumbnail |-> <<>>]

\* the check `x_dimension != 0 && y_dimension != 0`: a thumbnail was included
ThumbnailIncludedEither(x, y) == x # 0 \/ y # 0
ThumbnailIncluded(x, y) == x # 0 /\ y # 0

\* Jfif::parse: identifier(5) version(2) units(1) densities(2+2) thumbnail(1+1)
JfifParse(input) ==
    LET t1 == NomTag(input, 0, JFIF_IDENTIFIER)
        t2 == NomTag(input, 4, <<0>>)
        fail(r) == [res |-> r, val |-> NoJfif]
    IN  IF t1 # "Ok" THEN fail(JfifErr(": identifier invalid", t1))
        ELSE IF t2 # "Ok" THEN fail(JfifErr(": identifier invalid", t2))
        ELSE IF NomNeed(input, 5, 2) # "Ok"
        THEN fail(JfifErr(": version invalid", "Incomplete"))
        ELSE IF NomNeed(input, 7, 5) # "Ok"
        THEN fail(JfifErr(": density units invalid", "Incomplete"))
        ELSE IF input[8] > 2
        THEN fail(WithData(JfifErr(": density units unknown", ""), <<input[8]>>))
        ELSE IF NomNeed(input, 12, 2) # "Ok"
        THEN fail(JfifErr(": thumbnail dimensions invalid", "Incomplete"))
        ELSE IF ThumbnailIncluded(input[13], input[14])
        THEN fail(WithData(JfifErr(": thumbnail invalid", ""), Drop(input, 14)))
        ELSE [res |-> OkResult,
              val |-> [major |-> input[6], minor |-> input[7], density |-> input[8],
                       x_density |-> U16(input, 8, "Big"), y_density |-> U16(input, 10, "Big"),
                       x_dimension |-> input[13], y_dimension |-> input[14],
                       thumbnail |-> <<>>]]

-----------------------------------------------------------------------------
(* JPEG: markers (formats/jpeg/marker.rs) and Segment *)

PREFIX == 255
HEADER == <<255, 216>>
SOF == <<255, 192>>
DHT == <<255, 196>>
EOI == <<255, 217>>
SOS == <<255, 218>>
DQT == <<255, 219>>
DRI == <<255, 221>>
APP0 == <<255, 224>>
APP1 == <<255, 225>>
JPEG_PREFIX == <<255, 216>>

\* Segment::new
SegmentNew(m, length, data) == [marker |-> m, length |-> length, data |-> data]

\* Jpeg::is_jpeg
IsJpegFirstByte(h) == Len(h) >= 1 /\ h[1] = HEADER[1]
IsJpeg(h) == StartsWith(h, HEADER)

\* JpegError::parse(msg).with_nom_source(x) of the nom based parser: an
\* Incomplete source turns the error into JpegError::truncated().with_msg(msg)
JpegNomErr(msg, nom) ==
    IF nom = "Incomplete" THEN Err("truncated", msg, nom) ELSE Err("parse", msg, nom)

\* parse_length of the nom based parser: val - 2 on a u16
ParseLength(input, at, ck) ==
    IF NomNeed(input, at, 2) # "Ok"
    THEN [res |-> JpegNomErr(": segment length", "Incomplete"), cur |-> at, length |-> 0]
    ELSE LET val == U16(input, at, "Big")
         IN  IF val >= 2 THEN [res |-> OkResult, cur |-> at + 2, length |-> val - 2]
             ELSE IF ck
             THEN [res |-> Panic("attempt to subtract with overflow"), cur |-> at,
                   length |-> 0]
             ELSE [res |-> OkResult, cur |-> at + 2, length |-> val + 65536 - 2]

\* formats/jpeg/segment.rs parse: one segment from a slice
SegmentParse(input, ck) ==
    LET none == [res |-> OkResult, cur |-> 0, seg |-> SegmentNew(<<>>, 0, None)]
        t == NomTag(input, 0, <<PREFIX>>)
    IN  IF t # "Ok" THEN [none EXCEPT !.res = JpegNomErr(": segment marker", t)]
        ELSE IF NomNeed(input, 1, 1) # "Ok"
        THEN [none EXCEPT !.res = JpegNomErr(": segment marker", "Incomplete")]
        ELSE LET m == <<PREFIX, input[2]>>
                 l == ParseLength(input, 2, ck)
             IN  IF m \in {APP0, APP1, DQT, SOF, DHT, DRI}
                 THEN IF l.res.status # "ok" THEN [none EXCEPT !.res = l.res]
                      ELSE IF NomNeed(input, l.cur, l.length) # "Ok"
                      THEN [none EXCEPT !.res = JpegNomErr(": segment data", "Incomplete")]
                      ELSE [res |-> OkResult, cur |-> l.cur + l.length,
                            seg |-> SegmentNew(m, l.length,
                                      Some(SubSeq(input, l.cur + 1, l.cur + l.length)))]
                 ELSE IF m = SOS
                 THEN [res |-> OkResult, cur |-> 2, seg |-> SegmentNew(m, 0, None)]
                 ELSE [none EXCEPT !.res = WithData(Err("parse", ": segment marker unknown", ""), m)]

FindSegmentFirst(segs, m) == IF segs = <<>> THEN None ELSE Some(Head(segs))

\* Jpeg::jfif / Jpeg::exif: the first segment with the marker, if any
RECURSIVE FindSegment(_, _)
FindSegment(segs, m) ==
    IF segs = <<>> THEN None
    ELSE IF Head(segs).marker = m THEN Some(Head(segs))
    ELSE FindSegment(Tail(segs), m)

\* Option<JpegResult<Jfif>>: None, or Some of the parse with its error wrapped
JpegJfif(segs) ==
    LET f == FindSegment(segs, APP0)
    IN  IF f = None \/ f[1].data = None THEN None
        ELSE The({IF r.res.status = "ok" THEN Some(r)
                  ELSE Some([r EXCEPT !.res = Err("parse", ": jfif parsing", r.res.msg)]) :
                    r \in {JfifParse(f[1].data[1])}})

JpegExif(segs, ck) ==
    LET f == FindSegment(segs, APP1)
    IN  IF f = None \/ f[1].data = None THEN None
        ELSE The({IF r.res.status # "err" THEN Some(r)
                  ELSE Some([r EXCEPT !.res = Err("parse", ": exif parsing", r.res.msg)]) :
                    r \in {ExifParse(f[1].data[1], ck)}})

-----------------------------------------------------------------------------
(* The byte source: `chain` in front of what is left of `stream` *)

Ahead == chain \o Drop(stream, pos)

\* the reader after n bytes were consumed
ChainAfter(n) == Drop(chain, Min(n, Len(chain)))
PosAfter(n) == pos + Max(n - Len(chain), 0)

\* BufRead::read_until(b): the number of bytes consumed, up to and including
\* the first b, or all that is left
ReadUntil(buf, b) == IF IndexOf(buf, b, 1) = 0 THEN Len(buf) ELSE IndexOf(buf, b, 1)

\* slice::skip_until(reader, marker): Ok(false) when read_until consumed
\* nothing, else Ok(true); `rest` is what the reader has left
SkipUntilReader(buf, b) ==
    [val |-> ReadUntil(buf, b) # 0, rest |-> Drop(buf, ReadUntil(buf, b))]

\* bytes consumed by skip_until(PREFIX) in the scan
SkipLen == ReadUntil(Ahead, PREFIX)

\* MetaError from a JpegError (the `?` of Meta::parse): kind Jpeg, the
\* JpegError kept as source
MetaFromJpeg(r) == IF r.status = "err" THEN Err("jpeg", r.msg, r.kind) ELSE r

Returned(r) == IF entry = "Meta::parse" THEN MetaFromJpeg(r) ELSE r

-----------------------------------------------------------------------------
(* Entry points and the segment scan of container/jpeg/jpeg.rs *)

exifIdle == UNCHANGED <<exifVars, pairVars, calls, fnVars>>

\* the match arm of parse_segments that reads a length and a payload
HasPayloadSos(m) == m \in {APP0, APP1, SOS}
HasPayload(m) == m \in {APP0, APP1}

\* let len = len - 2: the length field counts its own 2 bytes
PayloadLengthWhole(len) == len
PayloadLength(len) == len - 2

\* the entry point returns r
Return(r) ==
    /\ result' = Returned(r)
    /\ pc' = "done"

\* libmeta::new: read_exact of 2 bytes, then the match on JPEG_PREFIX
NewReadHeader ==
    /\ entry = "new" /\ pc = "start"
    /\ header' = Take(Ahead, Min(2, Len(Ahead)))
    /\ pos' = PosAfter(Len(header'))
    /\ chain' = ChainAfter(Len(header'))
    /\ short' = (Len(header') < 2)
    /\ IF Len(header') < 2 THEN Return(Err("read", "", "UnexpectedEof"))
       ELSE IF header' = JPEG_PREFIX THEN Return(OkResult)
       ELSE Return(Err("unknown_header", "", ""))
    /\ UNCHANGED <<entry, stream, marker, seglen, segments, jfif, exif>>
    /\ exifIdle

\* Meta::parse: take(2).read_to_end, is_jpeg, header.chain(reader)
MetaParseHeader ==
    /\ entry = "Meta::parse" /\ pc = "start"
    /\ header' = Take(Ahead, Min(2, Len(Ahead)))
    /\ pos' = PosAfter(Len(header'))
    /\ short' = (Len(header') < 2)
    /\ IF IsJpeg(header')
       THEN chain' = header' /\ pc' = "jpeg" /\ result' = result
       ELSE chain' = chain /\ pc' = "done" /\ result' = Err("unknown_header", "", "")
    /\ UNCHANGED <<entry, stream, marker, seglen, segments, jfif, exif>>
    /\ exifIdle

\* Jpeg::parse: take(2).read_to_end, is_jpeg
JpegParseHeader ==
    /\ \/ entry = "Jpeg::parse" /\ pc = "start"
       \/ entry = "Meta::parse" /\ pc = "jpeg"
    /\ header' = Take(Ahead, Min(2, Len(Ahead)))
    /\ pos' = PosAfter(Len(header'))
    /\ chain' = ChainAfter(Len(header'))
    /\ short' = (Len(header') < 2)
    /\ IF ~IsJpeg(header') THEN Return(Err("parse", ": invalid header", ""))
       ELSE pc' = "scan" /\ result' = result
    /\ UNCHANGED <<entry, stream, marker, seglen, segments, jfif, exif>>
    /\ exifIdle

\* parse_segments, top of the loop: skip_until(PREFIX)
SkipUntil ==
    /\ pc = "scan"
    /\ pos' = PosAfter(SkipLen)
    /\ chain' = ChainAfter(SkipLen)
    /\ pc' = IF SkipLen = 0 THEN "finish" ELSE "marker"
    /\ UNCHANGED <<entry, stream, header, marker, seglen, segments, result, jfif, exif,
                   short>>
    /\ exifIdle

\* read_u8 of the marker number, and the match on the marker
ReadMarker ==
    /\ pc = "marker"
    /\ IF Len(Ahead) < 1
       THEN /\ Return(Err("read_failed", ": segment marker", "UnexpectedEof"))
            /\ short' = TRUE
            /\ UNCHANGED <<pos, chain, marker>>
       ELSE /\ marker' = <<PREFIX, Ahead[1]>>
            /\ pos' = PosAfter(1)
            /\ chain' = ChainAfter(1)
            /\ pc' = IF HasPayload(marker') THEN "length" ELSE "finish"
            /\ UNCHANGED <<result, short>>
    /\ UNCHANGED <<entry, stream, header, seglen, segments, jfif, exif>>
    /\ exifIdle

\* read_be_u16 of the segment length, the len < 2 check, len - 2
ReadLength ==
    /\ pc = "length"
    /\ IF Len(Ahead) < 2
       THEN /\ Return(Err("read_failed", ": segment length", "UnexpectedEof"))
            /\ short' = TRUE
            /\ pos' = PosAfter(Len(Ahead))
            /\ chain' = ChainAfter(Len(Ahead))
            /\ UNCHANGED seglen
       ELSE /\ pos' = PosAfter(2)
            /\ chain' = ChainAfter(2)
            /\ UNCHANGED short
            /\ IF U16(Ahead, 0, "Big") < 2
               THEN Return(Err("parse", ": segment length too short", "")) /\ UNCHANGED seglen
               ELSE /\ seglen' = PayloadLength(U16(Ahead, 0, "Big"))
                    /\ pc' = "data" /\ result' = result
    /\ UNCHANGED <<entry, stream, header, marker, segments, jfif, exif>>
    /\ exifIdle

\* read_bytes of the payload, segments.push
ReadData ==
    /\ pc = "data"
    /\ IF Len(Ahead) < seglen
       THEN /\ Return(Err("read_failed", ": segment data", "UnexpectedEof"))
            /\ short' = TRUE
            /\ pos' = PosAfter(Len(Ahead))
            /\ chain' = ChainAfter(Len(Ahead))
            /\ UNCHANGED segments
       ELSE /\ segments' = Append(segments, SegmentNew(marker, seglen, Some(Take(Ahead, seglen))))
            /\ pos' = PosAfter(seglen)
            /\ chain' = ChainAfter(seglen)
            /\ pc' = "scan"
            /\ UNCHANGED <<result, short>>
    /\ UNCHANGED <<entry, stream, header, marker, seglen, jfif, exif>>
    /\ exifIdle

\* after the loop: segments.is_empty(), Ok(segments); Meta::parse goes on
Finish ==
    /\ pc = "finish"
    /\ IF segments = <<>> THEN Return(Err("parse", ": no segments found", ""))
       ELSE IF entry = "Meta::parse" THEN pc' = "cache_jfif" /\ result' = result
       ELSE Return(OkResult)
    /\ UNCHANGED <<entry, stream, chain, pos, header, marker, seglen, segments, jfif, exif,
                   short>>
    /\ exifIdle

\* Meta::cache_jfif: the value is dropped by Meta::parse
MetaCacheJfif ==
    /\ pc = "cache_jfif"
    /\ \E x \in {JpegJfif(segments)} :
          jfif' = IF x # None /\ x[1].res.status = "ok" THEN Some(x[1].val) ELSE None
    /\ pc' = "cache_exif"
    /\ UNCHANGED <<entry, stream, chain, pos, header, marker, seglen, segments, result, exif,
                   short>>
    /\ exifIdle

\* Meta::cache_exif, then Ok(meta); a panic of Exif::parse unwinds Meta::parse
MetaCacheExif ==
    /\ pc = "cache_exif"
    /\ \E x \in {JpegExif(segments, checks)} :
           /\ exif' = IF x # None /\ x[1].res.status = "ok" THEN Some(x[1].ifds) ELSE None
           /\ IF x # None /\ x[1].res.status = "panic"
              THEN result' = x[1].res
              ELSE result' = OkResult
    /\ pc' = "done"
    /\ UNCHANGED <<entry, stream, chain, pos, header, marker, seglen, segments, jfif, short>>
    /\ exifIdle

\* Jfif::parse applied to an APP0 payload
JfifParseCall ==
    /\ entry = "Jfif::parse" /\ pc = "start"
    /\ \E r \in {JfifParse(stream)} :
           /\ result' = r.res
           /\ jfif' = IF r.res.status = "ok" THEN Some(r.val) ELSE None
           /\ short' = (r.res.src = "Incomplete")
    /\ pc' = "done"
    /\ UNCHANGED <<entry, stream, chain, pos, header, marker, seglen, segments, exif>>
    /\ exifIdle

\* formats/jpeg/segment.rs parse applied to the bytes after the header
SegmentParseCall ==
    /\ entry = "segment::parse" /\ pc = "start"
    /\ \E r \in {SegmentParse(Drop(stream, Len(HEADER)), checks)} :
           /\ result' = r.res
           /\ segments' = IF r.res.status = "ok" THEN <<r.seg>> ELSE <<>>
           /\ pos' = Len(HEADER) + r.cur
           /\ short' = (r.res.src = "Incomplete")
    /\ pc' = "done"
    /\ UNCHANGED <<entry, stream, chain, header, marker, seglen, jfif, exif>>
    /\ exifIdle

-----------------------------------------------------------------------------
(* Exif::parse of meta/exif/exif.rs, step by step *)

scanIdle == UNCHANGED <<scanVars, pairVars, calls, fnVars>>

\* the Exif::parse call returns r
ExifReturn(r) ==
    /\ eresult' = r
    /\ epc' = "done"

\* let (exif_data, _) = parse_exif_header(input)?
ExifParseHeader ==
    /\ epc = "header"
    /\ \E h \in {ParseExifHeader(payload)} :
          IF h.res.status # "ok" THEN ExifReturn(h.res)
          ELSE epc' = "endian" /\ eresult' = eresult
    /\ UNCHANGED <<payload, endian, cur, ifds, lastoff, checks>>
    /\ scanIdle

\* let (remain, endian) = parse_tiff_endian(exif_data)?
ExifParseTiffEndian ==
    /\ epc = "endian"
    /\ \E r \in {ParseTiffEndian(ExifData(payload), 0)} :
           IF r.res.status # "ok"
           THEN ExifReturn(r.res) /\ UNCHANGED <<endian, cur>>
           ELSE /\ endian' = r.endian
                /\ cur' = r.cur
                /\ epc' = "version"
                /\ eresult' = eresult
    /\ UNCHANGED <<payload, ifds, lastoff, checks>>
    /\ scanIdle

\* parse_tiff_version and the comparison with TIFF_VERSION
ExifParseTiffVersion ==
    /\ epc = "version"
    /\ \E r \in {ParseTiffVersion(ExifData(payload), cur, endian)} :
           IF TiffVersionCheck(r).status # "ok"
           THEN ExifReturn(TiffVersionCheck(r)) /\ UNCHANGED cur
           ELSE /\ cur' = r.cur
                /\ epc' = "ifds"
                /\ eresult' = eresult
    /\ UNCHANGED <<payload, endian, ifds, lastoff, checks>>
    /\ scanIdle

\* one iteration of the loop of parse_ifds; on break Exif::parse returns
\* Ok(Self { ifds })
ParseIfdsLoop ==
    /\ epc = "ifds"
    /\ \E it \in {ParseIfdsIter(ExifData(payload), cur, endian, checks)} :
           /\ lastoff' = it.off
           /\ IF it.res.status # "ok"
              THEN ExifReturn(it.res) /\ UNCHANGED <<cur, ifds>>
              ELSE IF it.brk
              THEN ExifReturn(OkResult) /\ UNCHANGED <<cur, ifds>>
              ELSE /\ ifds' = ifds \o it.push
                   /\ cur' = it.cur
                   /\ UNCHANGED <<epc, eresult>>
    /\ UNCHANGED <<payload, endian, checks>>
    /\ scanIdle

-----------------------------------------------------------------------------
(* The synthetic Exif block of the tests of exif.rs (no Exif header) *)

EXIF_TEST_DATA ==
    <<77, 77, 0, 42, 0, 0, 0, 8, 0, 6, 1, 14, 0, 2, 0, 0, 0, 11, 0, 0, 0, 86, 1, 26,
       0, 5, 0, 0, 0, 1, 0, 0, 0, 98, 1, 27, 0, 5, 0, 0, 0, 1, 0, 0, 0, 106, 1, 40,
       0, 3, 0, 0, 0, 1, 0, 2, 0, 0, 1, 50, 0, 2, 0, 0, 0, 20, 0, 0, 0, 114, 135, 105,
       0, 4, 0, 0, 0, 1, 0, 0, 0, 134, 0, 0, 0, 176, 84, 101, 115, 116, 32, 105, 109, 97, 103, 101,
       0, 70, 0, 0, 0, 72, 0, 0, 0, 1, 0, 0, 0, 72, 0, 0, 0, 1, 50, 48, 49, 54, 58, 48,
       53, 58, 48, 52, 32, 48, 51, 58, 48, 50, 58, 48, 49, 0, 0, 3, 144, 0, 0, 7, 0, 0, 0, 4,
       48, 50, 51, 48, 160, 2, 0, 3, 0, 0, 0, 1, 0, 15, 0, 0, 160, 3, 0, 3, 0, 0, 0, 1,
       0, 7, 0, 0, 0, 0, 0, 0, 0, 2, 2, 1, 0, 4, 0, 0, 0, 1, 0, 0, 0, 206, 2, 2,
       0, 4, 0, 0, 0, 1, 0, 0, 2, 136, 0, 0, 0, 0, 255, 216, 255, 224, 0, 16, 74, 70, 73, 70,
       0, 1, 1, 0, 0, 1, 0, 1, 0, 0, 255, 219, 0, 67, 0, 8, 6, 6, 7, 6, 5, 8, 7, 7,
       7, 9, 9, 8, 10, 12, 20, 13, 12, 11, 11, 12, 25, 18, 19, 15, 20, 29, 26, 31, 30, 29, 26, 28,
       28, 32, 36, 46, 39, 32, 34, 44, 35, 28, 28, 40, 55, 41, 44, 48, 49, 52, 52, 52, 31, 39, 57, 61,
       56, 50, 60, 46, 51, 52, 50, 255, 219, 0, 67, 1, 9, 9, 9, 12, 11, 12, 24, 13, 13, 24, 50, 33,
       28, 33, 50, 50, 50, 50, 50, 50, 50, 50, 50, 50, 50, 50, 50, 50, 50, 50, 50, 50, 50, 50, 50, 50,
       50, 50, 50, 50, 50, 50, 50, 50, 50, 50, 50, 50, 50, 50, 50, 50, 50, 50, 50, 50, 50, 50, 50, 50,
       50, 50, 50, 50, 255, 192, 0, 17, 8, 0, 3, 0, 7, 3, 1, 34, 0, 2, 17, 1, 3, 17, 1, 255,
       196, 0, 31, 0, 0, 1, 5, 1, 1, 1, 1, 1, 1, 0, 0, 0, 0, 0, 0, 0, 0, 1, 2, 3,
       4, 5, 6, 7, 8, 9, 10, 11, 255, 196, 0, 181, 16, 0, 2, 1, 3, 3, 2, 4, 3, 5, 5, 4,
       4, 0, 0, 1, 125, 1, 2, 3, 0, 4, 17, 5, 18, 33, 49, 65, 6, 19, 81, 97, 7, 34, 113, 20,
       50, 129, 145, 161, 8, 35, 66, 177, 193, 21, 82, 209, 240, 36, 51, 98, 114, 130, 9, 10, 22, 23, 24, 25,
       26, 37, 38, 39, 40, 41, 42, 52, 53, 54, 55, 56, 57, 58, 67, 68, 69, 70, 71, 72, 73, 74, 83, 84,
       85, 86, 87, 88, 89, 90, 99, 100, 101, 102, 103, 104, 105, 106, 115, 116, 117, 118, 119, 120, 121, 122, 131, 132,
       133, 134, 135, 136, 137, 138, 146, 147, 148, 149, 150, 151, 152, 153, 154, 162, 163, 164, 165, 166, 167, 168, 169, 170,
       178, 179, 180, 181, 182, 183, 184, 185, 186, 194, 195, 196, 197, 198, 199, 200, 201, 202, 210, 211, 212, 213, 214, 215,
       216, 217, 218, 225, 226, 227, 228, 229, 230, 231, 232, 233, 234, 241, 242, 243, 244, 245, 246, 247, 248, 249, 250, 255,
       196, 0, 31, 1, 0, 3, 1, 1, 1, 1, 1, 1, 1, 1, 1, 0, 0, 0, 0, 0, 0, 1, 2, 3,
       4, 5, 6, 7, 8, 9, 10, 11, 255, 196, 0, 181, 17, 0, 2, 1, 2, 4, 4, 3, 4, 7, 5, 4,
       4, 0, 1, 2, 119, 0, 1, 2, 3, 17, 4, 5, 33, 49, 6, 18, 65, 81, 7, 97, 113, 19, 34, 50,
       129, 8, 20, 66, 145, 161, 177, 193, 9, 35, 51, 82, 240, 21, 98, 114, 209, 10, 22, 36, 52, 225, 37, 241,
       23, 24, 25, 26, 38, 39, 40, 41, 42, 53, 54, 55, 56, 57, 58, 67, 68, 69, 70, 71, 72, 73, 74, 83,
       84, 85, 86, 87, 88, 89, 90, 99, 100, 101, 102, 103, 104, 105, 106, 115, 116, 117, 118, 119, 120, 121, 122, 130,
       131, 132, 133, 134, 135, 136, 137, 138, 146, 147, 148, 149, 150, 151, 152, 153, 154, 162, 163, 164, 165, 166, 167, 168,
       169, 170, 178, 179, 180, 181, 182, 183, 184, 185, 186, 194, 195, 196, 197, 198, 199, 200, 201, 202, 210, 211, 212, 213,
       214, 215, 216, 217, 218, 226, 227, 228, 229, 230, 231, 232, 233, 234, 242, 243, 244, 245, 246, 247, 248, 249, 250, 255,
       218, 0, 12, 3, 1, 0, 2, 17, 3, 17, 0, 63, 0, 244, 93, 30, 21, 185, 150, 210, 9, 154, 87, 137,
       12, 133, 83, 205, 108, 119, 247, 230, 138, 40, 160, 15, 255, 217>>

-----------------------------------------------------------------------------
(* Inputs: TIFF blocks encoded from logical field sets.  A logical field is *)
(* [tag, format, components, value], value the sequence of its numbers.     *)

RECURSIVE Reverse(_)
Reverse(q) == IF q = <<>> THEN <<>> ELSE Reverse(Tail(q)) \o <<Head(q)>>

\* v in `size` bytes of the byte order
EncodeNum(v, size, e) ==
    LET be == IF size = 1 THEN <<v>> ELSE IF size = 2 THEN ToBeBytes16(v) ELSE ToBeBytes32(v)
    IN  IF e = "Big" THEN be ELSE Reverse(be)

\* bytes of one number of the format
UnitSize(format) ==
    CASE format \in {UNSIGNED_SHORT, SIGNED_SHORT} -> 2
      [] format \in {UNSIGNED_LONG, SIGNED_LONG, UNSIGNED_RATIONAL, SIGNED_RATIONAL} -> 4
      [] OTHER -> 1

RECURSIVE EncodeNums(_, _, _)
EncodeNums(vs, size, e) ==
    IF vs = <<>> THEN <<>> ELSE EncodeNum(Head(vs), size, e) \o EncodeNums(Tail(vs), size, e)

ValueBytes(lf, e) == EncodeNums(lf.value, UnitSize(lf.format), e)

\* a value of up to 4 bytes sits left-justified in the 4 value bytes
Pad4(b) == b \o [i \in 1..(4 - Len(b)) |-> 0]

\* the 12-byte entries of the fields and their data area, which starts at dataAt
RECURSIVE EncodeEntries(_, _, _)
EncodeEntries(lfs, e, dataAt) ==
    IF lfs = <<>> THEN [entries |-> <<>>, data |-> <<>>]
    ELSE LET lf == Head(lfs)
             vb == ValueBytes(lf, e)
             inline == Len(vb) <= 4
             rest == EncodeEntries(Tail(lfs), e, IF inline THEN dataAt ELSE dataAt + Len(vb))
         IN  [entries |-> EncodeNum(lf.tag, 2, e) \o EncodeNum(lf.format, 2, e)
                          \o EncodeNum(lf.components, 4, e)
                          \o (IF inline THEN Pad4(vb) ELSE EncodeNum(dataAt, 4, e))
                          \o rest.entries,
              data |-> (IF inline THEN <<>> ELSE vb) \o rest.data]

\* an IFD at `at`: count, entries, next-IFD offset, data area
EncodeIfd(lfs, e, at, next) ==
    LET enc == EncodeEntries(lfs, e, at + 2 + 12 * Len(lfs) + 4)
    IN  EncodeNum(Len(lfs), 2, e) \o enc.entries \o EncodeNum(next, 4, e) \o enc.data

\* byte-order mark, version 42, offset of the first IFD
TiffHeader(e, first) ==
    (IF e = "Big" THEN BIG_ENDIAN ELSE LITTLE_ENDIAN) \o EncodeNum(42, 2, e)
    \o EncodeNum(first, 4, e)

ExifHeader == EXIF_IDENTIFIER \o EXIF_PADDING

\* logical fields
ResolutionUnit == [tag |-> 296, format |-> UNSIGNED_SHORT, components |-> 1, value |-> <<2>>]
ImageWidth == [tag |-> 256, format |-> UNSIGNED_LONG, components |-> 1, value |-> <<43>>]
ExifOffset(v) == [tag |-> EXIF_SUB_IFD_OFFSET, format |-> UNSIGNED_LONG, components |-> 1,
                  value |-> <<v>>]
ExifVersion == [tag |-> 36864, format |-> UNDEFINED, components |-> 4,
                value |-> <<48, 50, 51, 48>>]
ShortAscii == [tag |-> 270, format |-> ASCII_STRING, components |-> 3,
               value |-> <<97, 98, 0>>]
LongAscii == [tag |-> 270, format |-> ASCII_STRING, components |-> 5,
              value |-> <<84, 101, 115, 116, 0>>]
XResolution == [tag |-> 282, format |-> UNSIGNED_RATIONAL, components |-> 1,
                value |-> <<72, 1>>]
OneByte == [tag |-> 259, format |-> UNSIGNED_BYTE, components |-> 1, value |-> <<7>>]
ZeroShort == [tag |-> 274, format |-> UNSIGNED_SHORT, components |-> 1, value |-> <<0>>]
UnknownFormat == [tag |-> 700, format |-> 13, components |-> 1, value |-> <<1, 2, 3, 4>>]
ThumbnailOffset == [tag |-> 513, format |-> UNSIGNED_LONG, components |-> 1,
                    value |-> <<100>>]

\* a RATIONAL of no components: its 4 value bytes are all the data it has
EmptyRational == [tag |-> 283, format |-> UNSIGNED_RATIONAL, components |-> 0,
                  value |-> <<1>>]

\* an Orientation outside 1..8
BadOrientation == [tag |-> 274, format |-> UNSIGNED_SHORT, components |-> 1,
                   value |-> <<9>>]

LogicalFields == {ResolutionUnit, ImageWidth, ShortAscii, LongAscii, XResolution, OneByte,
                  ZeroShort, UnknownFormat, EmptyRational, BadOrientation}

-----------------------------------------------------------------------------
(* Inputs of Exif::parse *)

MaxFields == 2

FieldSets == {fs \in SeqsUpTo(LogicalFields, MaxFields) : fs # <<>>}

\* where the IFD after an IFD0 of these fields can start
AfterIfd0(lfs, e) == 8 + Len(EncodeIfd(lfs, e, 8, 0))

\* IFD0 at 8 and what its next-IFD offset leads to; "sub": IFD0 also holds
\* the pointer to an Exif sub-IFD, which follows it
Chained(lfs, e, chainTo) ==
    LET after == AfterIfd0(lfs, e)
        sub == AfterIfd0(lfs \o <<ExifOffset(0)>>, e)
    IN  CASE chainTo = "end" -> TiffHeader(e, 8) \o EncodeIfd(lfs, e, 8, 0)
          [] chainTo = "ifd1" -> TiffHeader(e, 8) \o EncodeIfd(lfs, e, 8, after)
                                 \o EncodeIfd(<<ThumbnailOffset>>, e, after, 0)
          [] chainTo = "back" -> TiffHeader(e, 8) \o EncodeIfd(lfs, e, 8, 8)
          [] chainTo = "outside" -> TiffHeader(e, 8) \o EncodeIfd(lfs, e, 8, after + 10)
          [] chainTo = "first_back" -> TiffHeader(e, 4) \o EncodeIfd(lfs, e, 8, 0)
          [] chainTo = "first_zero" -> TiffHeader(e, 0) \o EncodeIfd(lfs, e, 8, 0)
          [] chainTo = "sub" -> TiffHeader(e, 8)
                                \o EncodeIfd(lfs \o <<ExifOffset(sub)>>, e, 8, 0)
                                \o EncodeIfd(<<ExifVersion>>, e, sub, 0)

ChainTos == {"end", "ifd1", "back", "outside", "first_back", "first_zero", "sub"}
Endians == {"Big", "Little"}

WellFormedPayloads ==
    {ExifHeader \o Chained(lfs, e, c) : lfs \in FieldSets, e \in Endians, c \in ChainTos}

\* every prefix of one well-formed payload per byte order
TruncationBase(e) == ExifHeader \o Chained(<<ResolutionUnit, LongAscii>>, e, "end")
TruncatedPayloads ==
    {Take(TruncationBase(e), n) : e \in Endians, n \in 0..Len(TruncationBase("Big"))}

\* s with the bytes b written over it from index at + 1
Patch(s, at, b) ==
    [i \in DOMAIN s |-> IF i > at /\ i <= at + Len(b) THEN b[i - at] ELSE s[i]]

\* long enough, wrong content: identifier, padding, byte-order mark, version;
\* a version in the other byte order; two of them wrong at once
WrongPayloads ==
    LET ok == TruncationBase("Big")
    IN  {[ok EXCEPT ![2] = 88], [ok EXCEPT ![6] = 1], [ok EXCEPT ![8] = 73],
         [ok EXCEPT ![7] = 0], [ok EXCEPT ![10] = 43],
         Patch(ok, 8, <<42, 0>>), Patch(ok, 6, LITTLE_ENDIAN),
         Patch(ok, 1, <<88, 105, 102, 0, 0, 0, 0>>), Patch(ok, 6, <<77, 73, 0, 43>>)}

FixturePayload == ExifHeader \o EXIF_TEST_DATA

\* one out-of-line field (5 ASCII bytes) whose offset is overwritten: its
\* header ends at 22 of the TIFF buffer, its data stands at 26, the buffer
\* ends at 31
FieldOffsets == {0, 1, 21, 22, 26, 27, 31, 40}
BadOffsetPayloads ==
    {Patch(ExifHeader \o Chained(<<LongAscii>>, e, "end"), Len(ExifHeader) + 18,
           EncodeNum(o, 4, e)) : e \in Endians, o \in FieldOffsets}

Payloads ==
    WellFormedPayloads \cup TruncatedPayloads \cup WrongPayloads \cup {FixturePayload}
    \cup BadOffsetPayloads

-----------------------------------------------------------------------------
(* Inputs of the entry points: byte streams *)

MaxSegs == 3
MaxTail == 2
MaxCut == 3

\* the APP0 payload of JFIF_DATA_1 (formats/jpeg.rs)
JFIF_PAYLOAD == <<74, 70, 73, 70, 0, 1, 2, 1, 0, 72, 0, 72, 0, 0>>

\* a segment as it stands in a file: marker, length including itself, payload
SegmentBytes(m, p) == m \o ToBeBytes16(Len(p) + 2) \o p

Blocks ==
    {SegmentBytes(APP0, p) : p \in {<<>>, JFIF_PAYLOAD}}
    \cup {SegmentBytes(APP1, p) :
            p \in {<<255, 224>>, ExifHeader \o Chained(<<ImageWidth>>, "Big", "end"),
                   ExifHeader \o Chained(<<ImageWidth>>, "Little", "back")}}
    \cup {SegmentBytes(DQT, <<1>>)}

TailBytes == {0, 255}

\* what follows the last segment
Tails ==
    {<<>>, EOI, <<255, 233>>, <<0>>, <<255>>, <<255, 225, 0, 1>>, <<255, 224, 0>>}
    \cup {SOS \o t : t \in SeqsUpTo(TailBytes, MaxTail)}
    \cup {SOS \o SegmentBytes(APP1, <<>>)}

Bodies == {Concat(bs) : bs \in SeqsUpTo(Blocks, MaxSegs)}

HeaderBytes == {0, 216, 217, 255}
BadHeaders == {h \in [1..2 -> HeaderBytes] : h # HEADER}

Streams ==
    {HEADER \o b \o t : b \in Bodies, t \in Tails}
    \cup {Take(HEADER \o b, Len(HEADER \o b) - k) : b \in Bodies, k \in 1..MaxCut}
    \cup {h \o b : h \in BadHeaders, b \in {<<>>, SegmentBytes(APP0, JFIF_PAYLOAD)}}
    \cup {<<>>, <<255>>, <<216>>}

Entries == {"Jpeg::parse", "Meta::parse", "new", "segment::parse"}

\* APP0 payloads: every density unit code and thumbnail dimension pair of
\* the model, every prefix, a wrong identifier, bytes after the 14 fixed ones
DensityUnits == {0, 1, 2, 3, 255}
Dimensions == {0, 2}
JfifPayloads ==
    {[JFIF_PAYLOAD EXCEPT ![8] = u, ![13] = x, ![14] = y] \o t :
        u \in DensityUnits, x \in Dimensions, y \in Dimensions, t \in {<<>>, <<1, 2, 3>>}}
    \cup {Take([JFIF_PAYLOAD EXCEPT ![8] = u], n) : u \in {1, 3}, n \in 0..Len(JFIF_PAYLOAD)}
    \cup {[JFIF_PAYLOAD EXCEPT ![1] = 75], [JFIF_PAYLOAD EXCEPT ![5] = 1]}

-----------------------------------------------------------------------------
(* Specifications *)

ScanStart ==
    /\ chain = <<>> /\ pos = 0 /\ header = <<>> /\ marker = <<>> /\ seglen = 0
    /\ segments = <<>> /\ result = NoResult /\ jfif = None /\ exif = None
    /\ short = FALSE
ScanIdle == entry = "none" /\ stream = <<>> /\ pc = "idle" /\ ScanStart

ExifStart ==
    /\ endian = "Big" /\ cur = 0 /\ ifds = <<>> /\ eresult = NoResult /\ lastoff = -1
ExifIdle == payload = <<>> /\ epc = "idle" /\ ExifStart

NoDecode == [res |-> NoResult, ifds |-> <<>>]
PairIdle == logical = <<>> /\ pair = [big |-> NoDecode, little |-> NoDecode]

NoCall == [name |-> "none"]
\* `reads` is a ghost: the number of reads that returned bytes
NoLocals == [count |-> 0, buffer |-> <<>>, rpos |-> 0, interrupts |-> 0, reads |-> 0]
FnIdle == fn = NoCall /\ ret = None /\ loc = NoLocals

\* an entry point is called on a byte stream
Init ==
    /\ \/ entry \in Entries /\ stream \in Streams
       \/ entry = "Jfif::parse" /\ stream \in JfifPayloads
    /\ pc = "start" /\ ScanStart
    /\ checks \in BOOLEAN
    /\ ExifIdle /\ PairIdle /\ calls = <<>> /\ FnIdle

Next ==
    \/ NewReadHeader
    \/ MetaParseHeader
    \/ JpegParseHeader
    \/ SkipUntil
    \/ ReadMarker
    \/ ReadLength
    \/ ReadData
    \/ Finish
    \/ MetaCacheJfif
    \/ MetaCacheExif
    \/ SegmentParseCall
    \/ JfifParseCall

Spec == Init /\ [][Next]_vars

\* Exif::parse is called on an APP1 payload
InitExif ==
    /\ payload \in Payloads /\ epc = "header" /\ ExifStart
    /\ checks \in BOOLEAN
    /\ ScanIdle /\ PairIdle /\ calls = <<>> /\ FnIdle

NextExif ==
    \/ ExifParseHeader
    \/ ExifParseTiffEndian
    \/ ExifParseTiffVersion
    \/ ParseIfdsLoop

SpecExif == InitExif /\ [][NextExif]_vars

\* Exif::parse is one call that runs on: a step that can be taken is taken
SpecExifLive == InitExif /\ [][NextExif]_vars /\ WF_vars(NextExif)

\* one logical field set, encoded in each byte order and decoded
DecodeBig ==
    /\ pair.big = NoDecode
    /\ pair' = [pair EXCEPT !.big = ExifParse(ExifHeader \o Chained(logical, "Big", "end"),
                                              checks)]
    /\ UNCHANGED <<logical, scanVars, exifVars, calls, fnVars>>

DecodeLittle ==
    /\ pair.little = NoDecode
    /\ pair' = [pair EXCEPT !.little =
                    ExifParse(ExifHeader \o Chained(logical, "Little", "end"), checks)]
    /\ UNCHANGED <<logical, scanVars, exifVars, calls, fnVars>>

InitPair ==
    /\ logical \in FieldSets
    /\ pair = [big |-> NoDecode, little |-> NoDecode]
    /\ checks \in BOOLEAN
    /\ ScanIdle /\ payload = <<>> /\ epc = "idle" /\ ExifStart /\ calls = <<>> /\ FnIdle

NextPair == DecodeBig \/ DecodeLittle

SpecPair == InitPair /\ [][NextPair]_vars

-----------------------------------------------------------------------------
(* Repeated calls: Jpeg::parse and Meta::parse called one after another *)

MaxCalls == 2

\* `let mut segments = Vec::new()`: every call collects into a Vec of its own
FreshSegmentsKept == segments
FreshSegments == <<>>

\* what a call returned
Outcome ==
    [entry |-> entry, stream |-> stream, result |-> result, segments |-> segments,
     jfif |-> jfif, exif |-> exif]

RepeatEntries == {"Jpeg::parse", "Meta::parse"}
RepeatStreams ==
    {<<>>, HEADER \o SegmentBytes(APP0, JFIF_PAYLOAD) \o SOS,
     HEADER \o SegmentBytes(APP1, ExifHeader \o Chained(<<ImageWidth>>, "Big", "end"))
            \o SegmentBytes(APP0, <<>>) \o EOI,
     HEADER \o SegmentBytes(APP1, ExifHeader \o Chained(<<ImageWidth>>, "Little", "first_back")),
     HEADER \o <<255, 224, 0, 9, 74>>}

\* the call has returned and the next call is made, on a source of its own:
\* every local of Meta::parse, Jpeg::parse and parse_segments is made anew
CallAgain ==
    /\ pc = "done" /\ Len(calls) < MaxCalls
    /\ calls' = Append(calls, Outcome)
    /\ entry' \in RepeatEntries /\ stream' \in RepeatStreams
    /\ pc' = "start"
    /\ chain' = <<>> /\ pos' = 0 /\ header' = <<>> /\ marker' = <<>> /\ seglen' = 0
    /\ segments' = FreshSegments
    /\ result' = NoResult /\ jfif' = None /\ exif' = None /\ short' = FALSE
    /\ UNCHANGED <<exifVars, pairVars, fnVars>>

InitRepeat ==
    /\ entry \in RepeatEntries /\ stream \in RepeatStreams
    /\ pc = "start" /\ ScanStart
    /\ checks \in BOOLEAN
    /\ ExifIdle /\ PairIdle /\ calls = <<>> /\ FnIdle

NextRepeat ==
    \/ MetaParseHeader
    \/ JpegParseHeader
    \/ SkipUntil
    \/ ReadMarker
    \/ ReadLength
    \/ ReadData
    \/ Finish
    \/ MetaCacheJfif
    \/ MetaCacheExif
    \/ CallAgain

SpecRepeat == InitRepeat /\ [][NextRepeat]_vars

-----------------------------------------------------------------------------
(* Function calls: one call of a function of the library on given arguments  *)

\* format codes: none, the twelve of format.rs, and two that are not defined
Formats == 0..14

\* component counts over the u32 range, as limbs: 0, 1, 4, 10, 2^16 - 1, 2^16,
\* 2^29 - 1, 2^29, 2^30, 2^31, 2^32 - 1
ComponentCounts ==
    {<<0, 0>>, <<1, 0>>, <<4, 0>>, <<10, 0>>, <<65535, 0>>, <<0, 1>>, <<65535, 8191>>,
     <<0, 8192>>, <<0, 16384>>, <<0, 32768>>, <<65535, 65535>>}

LengthCalls ==
    {[name |-> "length", format |-> f, components |-> c] :
        f \in Formats, c \in ComponentCounts}

\* field.length()
LengthCall ==
    /\ fn.name = "length" /\ ret = None
    /\ ret' = Some(Length(fn.format, fn.components, checks))
    /\ UNCHANGED <<fn, loc, scanVars, exifVars, pairVars, calls>>

\* readers of up to MaxData bytes and the byte searched for
MaxData == 3
DataBytes == {0, 1, 255}
SkipUntilCalls ==
    {[name |-> "skip_until", data |-> d, marker |-> b] :
        d \in SeqsUpTo(DataBytes, MaxData), b \in {1, 255}}

\* slice::skip_until(&mut reader, marker)
SkipUntilCall ==
    /\ fn.name = "skip_until" /\ ret = None
    /\ ret' = Some(SkipUntilReader(fn.data, fn.marker))
    /\ UNCHANGED <<fn, loc, scanVars, exifVars, pairVars, calls>>

\* fields to convert: with no data, with data shorter than a component, with
\* the sign bit of the first component set and not set
SignedData ==
    {None, Some(<<>>), Some(<<1>>), Some(<<255>>), Some(<<0, 1>>), Some(<<255, 255>>),
     Some(<<128, 0>>), Some(<<0, 0, 0, 1>>), Some(<<1, 0, 0, 0>>)}
SignedFormats ==
    {SIGNED_BYTE, SIGNED_SHORT, SIGNED_LONG, UNSIGNED_SHORT, ASCII_STRING, 13}
ToSignedCalls ==
    {[name |-> "to_signed",
      field |-> [IfdFieldNew(e, 0, f, 1, 0) EXCEPT !.data = d]] :
        e \in {"Big", "Little"}, f \in SignedFormats, d \in SignedData}

\* field.to_signed()
ToSignedCall ==
    /\ fn.name = "to_signed" /\ ret = None
    /\ ret' = Some(ToSigned(fn.field))
    /\ UNCHANGED <<fn, loc, scanVars, exifVars, pairVars, calls>>

\* Stream::read_at_most(&mut buffer) over a reader of the bytes 1, 2, .. that
\* hands them out in pieces of any size and is interrupted up to
\* MaxInterrupts times
MaxInterrupts == 2
ReadAtMostCalls ==
    {[name |-> "read_at_most", data |-> [i \in 1..k |-> i], buflen |-> n] :
        k \in 0..MaxData, n \in 0..MaxData}

\* the part of the buffer handed to reader.read: &mut buffer[count..]
BufferFromStart(count) == 0
BufferFrom(count) == count

\* buf after n bytes of data from rpos were written at offset at
Filled(buf, at, data, rpos, n) ==
    [i \in 1..Len(buf) |->
        IF i > at /\ i <= at + n THEN data[rpos + (i - at)] ELSE buf[i]]

\* Ok(n) => count += n: the reader hands out 1 or more of the bytes it has
\* left, no more than the slice takes
ReadSome ==
    /\ fn.name = "read_at_most" /\ ret = None
    /\ \E n \in 1..Min(fn.buflen - loc.count, Len(fn.data) - loc.rpos) :
          loc' = [loc EXCEPT !.buffer = Filled(loc.buffer, BufferFrom(loc.count),
                                              fn.data, loc.rpos, n),
                             !.count = loc.count + n,
                             !.rpos = loc.rpos + n,
                             !.reads = loc.reads + 1]
    /\ UNCHANGED <<fn, ret, scanVars, exifVars, pairVars, calls>>

\* Err(e) of kind Interrupted: no byte was read, the loop goes round
ReadInterrupted ==
    /\ fn.name = "read_at_most" /\ ret = None
    /\ loc.interrupts < MaxInterrupts
    /\ loc' = [loc EXCEPT !.interrupts = loc.interrupts + 1]
    /\ UNCHANGED <<fn, ret, scanVars, exifVars, pairVars, calls>>

\* Err(e) of any other kind => return Err(e)
ReadFails ==
    /\ fn.name = "read_at_most" /\ ret = None
    /\ ret' = Some([status |-> "err", val |-> 0])
    /\ UNCHANGED <<fn, loc, scanVars, exifVars, pairVars, calls>>

\* Ok(0) => return Ok(count): the slice is empty or the reader is at its end
ReadZero ==
    /\ fn.name = "read_at_most" /\ ret = None
    /\ (fn.buflen - loc.count = 0 \/ Len(fn.data) - loc.rpos = 0)
    /\ ret' = Some([status |-> "ok", val |-> loc.count])
    /\ UNCHANGED <<fn, loc, scanVars, exifVars, pairVars, calls>>

InitFn ==
    /\ fn \in LengthCalls \cup SkipUntilCalls \cup ReadAtMostCalls \cup ToSignedCalls
    /\ ret = None
    /\ loc = IF fn.name = "read_at_most"
             THEN [NoLocals EXCEPT !.buffer = [i \in 1..fn.buflen |-> 0]]
             ELSE NoLocals
    /\ checks \in BOOLEAN
    /\ ScanIdle /\ payload = <<>> /\ epc = "idle" /\ ExifStart /\ PairIdle /\ calls = <<>>

NextFn ==
    \/ LengthCall
    \/ SkipUntilCall
    \/ ToSignedCall
    \/ ReadSome
    \/ ReadInterrupted
    \/ ReadFails
    \/ ReadZero

SpecFn == InitFn /\ [][NextFn]_vars

-----------------------------------------------------------------------------
(* Properties of the segment scan and of the entry points *)

\* the marker of a block of a stream
BlockMarker(b) == Take(b, 2)

\* the blocks that are APP0 or APP1 segments, in file order
RECURSIVE AppBlocks(_)
AppBlocks(bs) ==
    IF bs = <<>> THEN <<>>
    ELSE IF BlockMarker(Head(bs)) \in {APP0, APP1} THEN <<Head(bs)>> \o AppBlocks(Tail(bs))
    ELSE AppBlocks(Tail(bs))

\* exactly one APP0 and exactly one APP1 segment
OneApp0OneApp1(bs) ==
    /\ Len(AppBlocks(bs)) = 2
    /\ {BlockMarker(AppBlocks(bs)[1]), BlockMarker(AppBlocks(bs)[2])} = {APP0, APP1}

\* the Segment the scan returns for a block
SegmentOf(b) == SegmentNew(BlockMarker(b), Len(b) - 4, Some(Drop(b, 4)))

\* C1: for a well-formed JPEG buffer (SOI, segments, then SOS or EOI) with
\* exactly one APP0 and one APP1 segment, Jpeg::parse returns exactly those
\* two segments, in file order, each with data.len() == length.
C1_TwoSegmentsInFileOrder ==
    (entry = "Jpeg::parse" /\ pc = "done") =>
        \A bs \in SeqsUpTo(Blocks, MaxSegs), t \in {SOS, EOI} :
            (OneApp0OneApp1(bs) /\ stream = HEADER \o Concat(bs) \o t) =>
                /\ result.status = "ok"
                /\ Len(segments) = 2
                /\ segments = <<SegmentOf(AppBlocks(bs)[1]), SegmentOf(AppBlocks(bs)[2])>>
                /\ \A i \in 1..Len(segments) : Len(segments[i].data[1]) = segments[i].length

\* SOI, APP0(len=14, data), SOS
UpToSos == HEADER \o SegmentBytes(APP0, JFIF_PAYLOAD) \o SOS

\* C2: on SOI, APP0(len=14, data), SOS, <arbitrary bytes> the scan never
\* consumes a byte after the SOS marker and returns exactly the APP0 segment;
\* the nom based parser takes only the 2 marker bytes of an SOS.
C2_SosTerminal ==
    /\ (entry \in {"Jpeg::parse", "Meta::parse"} /\ StartsWith(stream, UpToSos)) =>
        /\ pos <= Len(UpToSos)
        /\ pc \in {"cache_jfif", "cache_exif", "done"} =>
              segments = <<SegmentNew(APP0, 14, Some(JFIF_PAYLOAD))>>
        /\ (pc = "done" /\ entry = "Jpeg::parse") => result = OkResult
    /\ (entry = "segment::parse" /\ pc = "done" /\ StartsWith(stream, HEADER \o SOS)) =>
        /\ pos = Len(HEADER \o SOS)
        /\ result = OkResult
        /\ segments = <<SegmentNew(SOS, 0, None)>>

C2_Witness ==
    /\ entry = "Jpeg::parse" /\ pc = "done"
    /\ StartsWith(stream, UpToSos) /\ Len(stream) > Len(UpToSos)
    /\ result = OkResult /\ Len(segments) = 1 /\ pos = Len(UpToSos)

\* the stream starts with 2 bytes that are not 0xFF 0xD8
OtherHeader == Len(stream) >= 2 /\ Take(stream, 2) # HEADER

\* C3: on a 2-byte header other than 0xFF 0xD8 Jpeg::parse fails with its
\* invalid header error and Meta::parse and libmeta::new with unknown_header;
\* none returns Ok, none panics, none goes on to scan.
C3_HeaderRejected ==
    (OtherHeader /\ entry \in {"Jpeg::parse", "Meta::parse", "new"}) =>
        /\ result.status \in {"none", "err"}
        /\ pc \in {"start", "done"}
        /\ pc = "done" =>
              result = IF entry = "Jpeg::parse" THEN Err("parse", ": invalid header", "")
                       ELSE Err("unknown_header", "", "")

C3_Witness ==
    /\ entry = "Meta::parse" /\ pc = "done" /\ Len(stream) > 2
    /\ Take(stream, 2) = <<255, 217>> /\ result.kind = "unknown_header"

\* C4: a failing step of Jpeg::parse or of the segment parser reports the
\* truncated kind exactly when the input ended before the bytes it required,
\* a structural kind otherwise.
C4_TruncatedNotConflated ==
    (entry \in {"Jpeg::parse", "segment::parse"} /\ pc = "done" /\ result.status = "err") =>
        /\ short => result.kind = "truncated"
        /\ ~short => result.kind = "parse"

\* the markers the scan knows
KnownMarkers == {APP0, APP1, DQT, SOF, DHT, DRI, SOS}

\* the marker the nom based parser reads: the 2 bytes after the header
FirstMarker == SubSeq(stream, Len(HEADER) + 1, Len(HEADER) + 2)

\* C12: a marker that is none of APP0, APP1, DQT, SOF, DHT, DRI, SOS ends the
\* scan with the unknown marker error, which carries the 2 marker bytes;
\* the scan does not end in Ok or in another error.
C12_UnknownMarkerFails ==
    /\ (entry = "Jpeg::parse" /\ pc = "done" /\ marker # <<>> /\ marker \notin KnownMarkers) =>
          result = WithData(Err("parse", ": segment marker unknown", ""), marker)
    /\ (entry = "segment::parse" /\ pc = "done" /\ Len(stream) >= Len(HEADER) + 2
          /\ FirstMarker[1] = PREFIX /\ FirstMarker \notin KnownMarkers) =>
          result = WithData(Err("parse", ": segment marker unknown", ""), FirstMarker)

\* the Segments the scan returns for the blocks
RECURSIVE SegmentsOf(_)
SegmentsOf(bs) ==
    IF bs = <<>> THEN <<>> ELSE <<SegmentOf(Head(bs))>> \o SegmentsOf(Tail(bs))

\* an APP0 or APP1 segment stands after a DQT, SOF, DHT or DRI segment
AppAfterOther(bs) ==
    \E i, j \in DOMAIN bs :
        /\ i < j
        /\ BlockMarker(bs[i]) \in {DQT, SOF, DHT, DRI}
        /\ BlockMarker(bs[j]) \in {APP0, APP1}

\* C13: a DQT, SOF, DHT or DRI segment is read over (length, then length - 2
\* payload bytes, not retained) and the scan goes on: on SOI, segments, SOS
\* every APP0 and APP1 segment is returned, also one that follows such a
\* segment, and the scan ends at the SOS marker.
C13_OtherSegmentsSkipped ==
    (entry = "Jpeg::parse" /\ pc = "done") =>
        \A bs \in SeqsUpTo(Blocks, MaxSegs) :
            (AppAfterOther(bs) /\ stream = HEADER \o Concat(bs) \o SOS) =>
                /\ result = OkResult
                /\ segments = SegmentsOf(AppBlocks(bs))
                /\ pos = Len(stream)

\* the length field of the segment whose payload is about to be read
LengthField == U16(stream, pos - 2, "Big")

\* a step of the scan commits a payload once and never moves back
PayloadCommitted ==
    entry \in {"Jpeg::parse", "Meta::parse"} =>
        /\ pos' >= pos
        /\ (pc = "data" /\ pc' = "scan") =>
              /\ LengthField >= 2
              /\ marker \in {APP0, APP1}
              /\ segments' = Append(segments,
                                 SegmentNew(marker, LengthField - 2,
                                     Some(SubSeq(stream, pos + 1, pos + LengthField - 2))))
              /\ pos' = pos + LengthField - 2
        /\ (pc = "marker" /\ pc' # "done") => pos' = pos + 1
        /\ segments' # segments => pc = "data"

\* C14: the scan records length L - 2 for an APP0 or APP1 segment with length
\* field L, takes exactly the L - 2 bytes after the length field as its data
\* and goes on at the byte after them; the read position never moves back,
\* so no byte of a payload is read as a marker or parsed again.
C14_PayloadCommittedOnce == [][PayloadCommitted]_vars

\* a payload that holds the bytes of a marker, and the segment after it
C14_Witness ==
    /\ entry = "Jpeg::parse" /\ pc = "done" /\ result = OkResult
    /\ segments = <<SegmentNew(APP1, 2, Some(<<255, 224>>)), SegmentNew(APP0, 0, Some(<<>>))>>

\* the payload holds the identifier and the 14 fixed bytes
JfifFixedPart == Len(stream) >= 14 /\ Take(stream, 5) = <<74, 70, 73, 70, 0>>

\* C16: the JFIF decode of an APP0 payload succeeds exactly when the payload
\* starts with "JFIF\0", holds the 14 fixed bytes, has a density unit code of
\* 0, 1 or 2 and not both thumbnail dimensions non-zero; another unit code is
\* the density units unknown error, two non-zero dimensions are the
\* thumbnail invalid error, one non-zero dimension decodes with no thumbnail.
C16_JfifDecode ==
    (entry = "Jfif::parse" /\ pc = "done") =>
        /\ result.status \in {"ok", "err"}
        /\ result.status = "ok" <=>
              /\ JfifFixedPart
              /\ stream[8] \in {0, 1, 2}
              /\ ~(stream[13] # 0 /\ stream[14] # 0)
        /\ (JfifFixedPart /\ stream[8] \notin {0, 1, 2}) =>
              result = WithData(Err("parse", ": density units unknown", ""), <<stream[8]>>)
        /\ (JfifFixedPart /\ stream[8] \in {0, 1, 2} /\ stream[13] # 0 /\ stream[14] # 0) =>
              (result.kind = "parse" /\ result.msg = ": thumbnail invalid")
        /\ result.status = "ok" =>
              /\ jfif # None
              /\ jfif[1].thumbnail = None
              /\ jfif[1].density = stream[8]
              /\ jfif[1].x_dimension = stream[13] /\ jfif[1].y_dimension = stream[14]
        /\ result.status = "err" => jfif = None

\* one thumbnail dimension is not zero and the payload decodes
C16_Witness ==
    /\ entry = "Jfif::parse" /\ pc = "done" /\ result = OkResult
    /\ stream[13] = 2 /\ stream[14] = 0 /\ jfif # None

\* a retained payload whose decode left nothing in the Meta value
JfifFailed == FindSegment(segments, APP0) # None /\ jfif = None
ExifFailed == FindSegment(segments, APP1) # None /\ exif = None

\* C17: when the JFIF decode of the retained APP0 payload or the Exif decode
\* of the retained APP1 payload fails, Meta::parse returns an error, never
\* Ok with that part missing.
C17_DecodeFailureSurfaced ==
    (entry = "Meta::parse" /\ pc = "done" /\ (JfifFailed \/ ExifFailed)) =>
        result.status = "err"

\* the segments with the payload of every segment of marker m replaced by d
SwapData(segs, m, d) ==
    [i \in DOMAIN segs |->
        IF segs[i].marker = m THEN SegmentNew(m, Len(d), Some(d)) ELSE segs[i]]

\* payloads to put in the place of the other segment's
SwapPayloads ==
    {<<>>, <<255, 224>>, JFIF_PAYLOAD, [JFIF_PAYLOAD EXCEPT ![8] = 3],
     ExifHeader \o Chained(<<ImageWidth>>, "Big", "end"),
     ExifHeader \o Chained(<<ImageWidth>>, "Little", "first_back")}

\* C18: the Exif result of the retained segments is the same whatever the
\* APP0 payload is, the JFIF result the same whatever the APP1 payload is,
\* and Meta::parse caches exactly these two results.
C18_JfifExifIndependent ==
    (entry = "Meta::parse" /\ pc = "done" /\ result.status \in {"ok", "panic"}) =>
        /\ \A d \in SwapPayloads :
              /\ JpegExif(SwapData(segments, APP0, d), checks) = JpegExif(segments, checks)
              /\ JpegJfif(SwapData(segments, APP1, d)) = JpegJfif(segments)
        /\ jfif = IF JpegJfif(segments) # None /\ JpegJfif(segments)[1].res.status = "ok"
                  THEN Some(JpegJfif(segments)[1].val) ELSE None
        /\ exif = IF JpegExif(segments, checks) # None
                     /\ JpegExif(segments, checks)[1].res.status = "ok"
                  THEN Some(JpegExif(segments, checks)[1].ifds) ELSE None

\* the JFIF decode succeeded and the Exif decode of the same file failed
C18_Witness ==
    /\ entry = "Meta::parse" /\ pc = "done" /\ result = OkResult
    /\ FindSegment(segments, APP0) # None /\ jfif # None
    /\ FindSegment(segments, APP1) # None /\ exif = None
    /\ segments[1].marker = APP0

\* the calls that have returned, the current one included
Returns == IF pc = "done" THEN Append(calls, Outcome) ELSE calls

ShortLengthRead ==
    \/ /\ entry \in {"Jpeg::parse", "Meta::parse"} /\ pc = "length"
       /\ Len(Ahead) >= 2 /\ U16(Ahead, 0, "Big") < 2
    \/ /\ entry = "segment::parse" /\ pc = "start"
       /\ Len(stream) >= 6 /\ stream[3] = PREFIX
       /\ <<PREFIX, stream[4]>> \in {APP0, APP1, DQT, SOF, DHT, DRI}
       /\ U16(stream, 4, "Big") < 2

\* the step fails with a parse error, consumes the length field at most, and
\* records no segment and no payload length
ShortLengthStep ==
    ShortLengthRead =>
        /\ pc' = "done"
        /\ result'.status = "err" /\ result'.kind \in {"parse", "jpeg"}
        /\ entry # "segment::parse" =>
              result' = Returned(Err("parse", ": segment length too short", ""))
        /\ segments' = segments /\ seglen' = seglen
        /\ pos' <= pos + 2

\* C30: a segment length field below 2 makes the read of the segment fail with
\* a parse error ("segment length too short" in the scan); the payload length
\* L - 2 is never computed with underflow or wrap-around and no payload is
\* read for the segment.
C30_ShortLengthRejected == [][ShortLengthStep]_vars

\* the bytes after the 2 header bytes, and where their first PREFIX is
Body == Drop(stream, 2)
FirstPrefix == IndexOf(Body, PREFIX, 1)

\* the search for a marker runs into the end of the stream, or the first
\* marker found is whole and neither APP0 nor APP1
StopsAtEnd == FirstPrefix = 0
StopsAtOther ==
    /\ FirstPrefix > 0 /\ Len(Body) > FirstPrefix
    /\ <<PREFIX, Body[FirstPrefix + 1]>> \notin {APP0, APP1}

\* C24: when the stream has a valid SOI header and the scan stops, at the end
\* of the stream or at a marker other than APP0/APP1, before any segment was
\* collected, Jpeg::parse returns the parse error "no segments found".
C24_NoSegmentsFound ==
    (/\ entry = "Jpeg::parse" /\ pc = "done"
     /\ Len(stream) >= 2 /\ IsJpeg(Take(stream, 2))
     /\ (StopsAtEnd \/ StopsAtOther)) =>
        result = Err("parse", ": no segments found", "")

-----------------------------------------------------------------------------
(* Properties of the Exif decode *)

\* the TIFF-header-relative buffer of the payload being decoded
Tiff == ExifData(payload)

\* the decoded fields, as <<index of the IFD, index of the field>>
DecodedFields == UNION {{<<i, j>> : j \in DOMAIN ifds[i].fields} : i \in DOMAIN ifds}
FieldAt(ij) == ifds[ij[1]].fields[ij[2]]

\* the 4 value/offset bytes of a field header as they stand in the buffer
Raw4(f) == SubSeq(Tiff, f.at + 9, f.at + 12)

\* C5: a decoded field longer than 4 bytes has offset Some(o), o its 4
\* value/offset bytes in the byte order of the block, and data equal to the
\* bytes [o, o + length) of the TIFF-header-relative buffer.
C5_OutOfLineAtOffset ==
    \A ij \in DecodedFields :
        LET f == FieldAt(ij)
            o == U32(Tiff, f.at + 8, endian)
        IN  FieldLength(f) > 4 =>
                /\ f.offset = Some(o)
                /\ f.data = Some(SubSeq(Tiff, o + 1, o + FieldLength(f)))

\* an out-of-line field whose data does not start where its header ends
C5_Witness ==
    /\ epc = "done" /\ eresult = OkResult
    /\ \E ij \in DecodedFields :
          /\ FieldLength(FieldAt(ij)) > 4
          /\ FieldAt(ij).offset # None
          /\ FieldAt(ij).offset[1] > FieldAt(ij).at + 12
          /\ ij[2] < Len(ifds[ij[1]].fields)

Convertible(f) ==
    IF f.tag \in EnumTags THEN ToUnsigned(f) # None
    ELSE CASE f.format \in {ASCII_STRING, UNDEFINED} -> f.data # None
           [] f.format \in {UNSIGNED_BYTE, UNSIGNED_SHORT, UNSIGNED_LONG} ->
                ToUnsigned(f) # None
           [] f.format = UNSIGNED_RATIONAL ->
                f.data # None /\ Len(f.data[1]) % 8 = 0
           [] f.format \in {SIGNED_BYTE, SIGNED_SHORT, SIGNED_LONG} -> ToSigned(f) # None
           [] OTHER -> FALSE

\* C20: to_string of every decoded field returns a string and never panics,
\* and a field whose value cannot be converted (a RATIONAL whose data is not
\* a multiple of 8 bytes long, a format without a converter) renders as the
\* diagnostic placeholder.
C20_RenderNonFatal ==
    \A ij \in DecodedFields :
        LET f == FieldAt(ij)
        IN  /\ IfdFieldToString(f).status = "ok"
            /\ ~Convertible(f) => IfdFieldToString(f).kind = "debug"

\* C21: a decoded field of an enum tag (Orientation, ResolutionUnit,
\* YCbCrPositioning, Contrast, Saturation, Sharpness, SceneCaptureType,
\* GainControl) whose numeric value is not one the tag defines renders as the
\* debug placeholder, not as the name of a defined value.
C21_UndefinedEnumValuePlaceholder ==
    \A ij \in DecodedFields :
        LET f == FieldAt(ij)
        IN  (/\ f.tag \in EnumTags
             /\ ToUnsigned(f) # None
             /\ ToUnsigned(f)[1] \notin DefinedValues(f.tag)) =>
                /\ IfdFieldToString(f).kind = "debug"
                /\ IfdFieldToString(f).val \notin
                      {EnumFrom(f.tag, v) : v \in DefinedValues(f.tag)}

\* C22: the Exif value of a successful Exif::parse owns at least one Ifd, also
\* when the first IFD offset of the TIFF header is 0.
C22_AtLeastOneIfd ==
    (epc = "done" /\ eresult = OkResult) => Len(ifds) >= 1

\* a number of limbs without its leading zero limbs
RECURSIVE Norm(_)
Norm(x) == IF x # <<>> /\ x[Len(x)] = 0 THEN Norm(Take(x, Len(x) - 1)) ELSE x

\* x * k as a number: no width, the carry kept as one more limb
Product(x, k) == Norm(MulCarry(x, k, 0).val \o <<MulCarry(x, k, 0).over>>)

\* the unit sizes as the formats define them; 0 for a code that is no format
UnitOf(format) ==
    CASE format \in {1, 2, 6, 7} -> 1
      [] format \in {3, 8} -> 2
      [] format \in {4, 9, 11} -> 4
      [] format \in {5, 10, 12} -> 8
      [] OTHER -> 0

\* C23: for every format code and every 32-bit component count, length()
\* returns components times the unit size of the format as a number, without
\* wrap-around or overflow panic, and 0 for every unknown format code.
C23_LengthExact ==
    (fn.name = "length" /\ ret # None) =>
        /\ ret[1].status = "ok"
        /\ Norm(ret[1].val) = Product(fn.components, UnitOf(fn.format))

\* 2^32 - 1 DOUBLE components: 8 * (2^32 - 1) needs more than 32 bits
C23_Witness ==
    /\ fn.name = "length" /\ ret # None
    /\ fn.format = DOUBLE_FLOAT /\ fn.components = <<65535, 65535>>
    /\ ret[1].val = <<65528, 65535, 7, 0>>

\* C25: skip_until returns Ok(false) when the end of the stream is reached
\* without the marker byte being found, and otherwise Ok(true) with the
\* reader consumed up to and including the first marker byte.
C25_SkipUntil ==
    (fn.name = "skip_until" /\ ret # None) =>
        LET i == IndexOf(fn.data, fn.marker, 1)
        IN  IF i = 0 THEN ret[1].val = FALSE
            ELSE ret[1].val = TRUE /\ ret[1].rest = Drop(fn.data, i)

\* C26: read_at_most returns n = min(buffer.len(), bytes left in the source)
\* with buffer[0..n] the next n source bytes in order, however the reader
\* splits the data and however many times it is interrupted; n is below
\* buffer.len() only at the end of the stream; no byte is lost or duplicated
\* on the way.
C26_ReadAtMost ==
    fn.name = "read_at_most" =>
        /\ loc.rpos = loc.count
        /\ Take(loc.buffer, loc.count) = Take(fn.data, loc.count)
        /\ (ret # None /\ ret[1].status = "ok") =>
              /\ ret[1].val = Min(fn.buflen, Len(fn.data))
              /\ Take(loc.buffer, ret[1].val) = Take(fn.data, ret[1].val)
              /\ (ret[1].val < fn.buflen => loc.rpos = Len(fn.data))

\* a buffer of 3 filled from 3 bytes in more than one read, with interrupts
C26_Witness ==
    /\ fn.name = "read_at_most" /\ ret # None /\ ret[1].status = "ok"
    /\ fn.buflen = 3 /\ Len(fn.data) = 3 /\ ret[1].val = 3
    /\ loc.interrupts = MaxInterrupts /\ loc.reads > 1

\* the two's-complement value of the w-byte unsigned u
\* (the sign bit is set when u is at least 2 quarters of 2^(8w))
TwosComplement(u, w) ==
    LET quarter == IF w = 1 THEN 64 ELSE IF w = 2 THEN 16384 ELSE 1073741824
    IN  IF u \div quarter >= 2 THEN (((u - quarter) - quarter) - quarter) - quarter
        ELSE u

\* the bytes of a component of a signed format, 0 for any other format
SignedWidth(format) ==
    CASE format = SIGNED_BYTE -> 1
      [] format = SIGNED_SHORT -> 2
      [] format = SIGNED_LONG -> 4
      [] OTHER -> 0

\* C27: to_signed returns the two's-complement value of the first component
\* of a SIGNED_BYTE, SIGNED_SHORT or SIGNED_LONG field read in the field's
\* byte order, and None for every other format or when the data is shorter
\* than one component.
C27_ToSigned ==
    (fn.name = "to_signed" /\ ret # None) =>
        LET f == fn.field
            w == SignedWidth(f.format)
        IN  IF w = 0 \/ f.data = None \/ Len(f.data[1]) < w THEN ret[1] = None
            ELSE LET u == IF w = 1 THEN f.data[1][1]
                          ELSE IF w = 2 THEN U16(f.data[1], 0, f.endian)
                          ELSE U32(f.data[1], 0, f.endian)
                 IN  ret[1] = Some(TwosComplement(u, w))

\* C28: a zero in the 4 value bytes of a field is data: it never makes
\* Exif::parse fail, so the decode never returns the zero-offset signal that
\* ends the IFD chain as its error, and a decoded field of at most 4 bytes
\* whose value bytes are all zero has the data 0, 0, 0, 0.
C28_ZeroValueDecodes ==
    /\ epc = "done" => ~(eresult.status = "err" /\ eresult.kind = "offset_zero")
    /\ \A ij \in DecodedFields :
          LET f == FieldAt(ij)
          IN  (FieldLength(f) <= 4 /\ Raw4(f) = <<0, 0, 0, 0>>) =>
                  f.data = Some(<<0, 0, 0, 0>>)

\* an iteration of the walk that goes on leaves the read position further on
WalkForward == (epc = "ifds" /\ epc' = "ifds") => cur' > cur

\* the visited IFDs stand at strictly increasing offsets: none is visited twice
VisitedOnce == \A i, j \in DOMAIN ifds : i < j => ifds[i].at < ifds[j].at

\* Exif::parse ended with Ok (the chain is exhausted) or with an error
EndsDoneOrError == epc = "done" => eresult.status \in {"ok", "err"}

\* C29: the Exif decode terminates on every payload: every iteration of the
\* IFD walk moves the read position strictly forward, no IFD is visited
\* twice, whatever the next-IFD offsets point at, and the walk ends in Done
\* or in an error.
C29_WalkTerminates ==
    /\ [][WalkForward]_vars
    /\ []VisitedOnce
    /\ <>(epc = "done")
    /\ []EndsDoneOrError

\* where the next-IFD offset of an IFD stands
IfdEnd(ifd) == ifd.at + 2 + 12 * Len(ifd.fields)

\* every decoded IFD is the one the chain of next-IFD offsets leads to, after
\* the one before it
OnNextChain ==
    \A i \in DOMAIN ifds :
        ifds[i].at = U32(Tiff, IF i = 1 THEN 4 ELSE IfdEnd(ifds[i - 1]), endian)

\* C7: the walk goes on until it reads a next-IFD offset of 0 and then
\* returns Ok; Ok is returned in no other way; the IFDs are in chain order.
C7_ChainEndsAtZero ==
    /\ lastoff = 0 => (epc = "done" /\ eresult = OkResult)
    /\ (epc = "done" /\ eresult.status = "ok") => lastoff = 0
    /\ OnNextChain

C7_Witness ==
    /\ epc = "done" /\ eresult = OkResult /\ lastoff = 0
    /\ Len(ifds) = 2 /\ ifds[1].at < ifds[2].at

\* the value of the Exif sub-IFD pointer of IFD0, 0 when IFD0 has none
SubIfdPointer ==
    IF ifds = <<>> \/ FieldByTag(ifds[1].fields, EXIF_SUB_IFD_OFFSET) = None THEN 0
    ELSE U32(Tiff, FieldByTag(ifds[1].fields, EXIF_SUB_IFD_OFFSET)[1].at + 8, endian)

C10_OffsetFailed ==
    /\ eresult.status # "panic"
    /\ (epc = "done" /\ lastoff > 0 /\ (lastoff > Len(Tiff) \/ lastoff < cur + 4)) =>
          (eresult.status = "err" /\ eresult.kind = "offset_failed")

\* the three parts of the header of a payload, each after the one before it
IdentifierOk == Len(payload) >= 6 /\ Take(payload, 6) = <<69, 120, 105, 102, 0, 0>>
ByteOrderOk ==
    IdentifierOk /\ Len(payload) >= 8 /\ SubSeq(payload, 7, 8) \in {<<77, 77>>, <<73, 73>>}
VersionOk ==
    /\ ByteOrderOk /\ Len(payload) >= 10
    /\ SubSeq(payload, 9, 10) = IF payload[7] = 77 THEN <<0, 42>> ELSE <<42, 0>>

\* C15: the decode gets to the IFDs exactly when the payload starts with
\* "Exif\0\0", then "MM" or "II", then 0x002A in that byte order; the checks
\* run in that order and the first that fails ends the decode with its error.
C15_HeaderChecks ==
    /\ epc = "ifds" => VersionOk
    /\ epc = "done" =>
          /\ ~VersionOk => (eresult.status = "err" /\ eresult.kind = "parse" /\ ifds = <<>>)
          /\ ~IdentifierOk => eresult.msg = ": Exif header"
          /\ (IdentifierOk /\ ~ByteOrderOk) => eresult.msg = ": TIFF endian"
          /\ (ByteOrderOk /\ ~VersionOk) =>
                \/ Len(payload) < 10 /\ eresult.msg = ": TIFF version"
                \/ /\ Len(payload) >= 10
                   /\ eresult = WithData(Err("parse", ": TIFF version invalid", ""),
                                         IF payload[7] = 77 THEN SubSeq(payload, 9, 10)
                                         ELSE <<payload[10], payload[9]>>)
          /\ VersionOk =>
                eresult.msg \notin {": Exif header", ": TIFF endian", ": TIFF version",
                                    ": TIFF version invalid"}

\* "MM" followed by 0x2A 0x00 is rejected
C15_Witness ==
    /\ epc = "done" /\ Len(payload) >= 10 /\ SubSeq(payload, 7, 10) = <<77, 77, 42, 0>>
    /\ eresult = WithData(Err("parse", ": TIFF version invalid", ""), <<42, 0>>)

\* the decode went into the IFD at lastoff: the offset was read and reached
EnteredIfd == lastoff > 0 /\ lastoff >= cur + 4 /\ lastoff <= Len(Tiff)

\* the header of field k of the IFD at o, as IfdField::new gets it
HeaderAt(o, k) ==
    LET at == o + 2 + 12 * (k - 1)
    IN  IfdFieldNew(endian, U16(Tiff, at, endian), U16(Tiff, at + 2, endian),
                    U32(Tiff, at + 4, endian), at)

\* the decode reached the 12-byte header of field k of the IFD at o: the
\* count covers it, the fields before it decoded, the header is in the buffer
HeaderReached(o, k) ==
    /\ ParseIfdFieldCount(Tiff, o, endian).res.status = "ok"
    /\ k <= ParseIfdFieldCount(Tiff, o, endian).count
    /\ ParseIfdFields(Tiff, o + 2, endian, k - 1, IfdNew(endian)).res.status = "ok"
    /\ o + 2 + 12 * k <= Len(Tiff)

\* the offset of an out-of-line field lies before the end of its header
OffsetNegative(f) == FieldLength(f) > 4 /\ U32(Tiff, f.at + 8, endian) < f.at + 12

\* the range [offset, offset + length) of an out-of-line field leaves the buffer
OffsetPastEnd(f) ==
    FieldLength(f) > 4 /\ U32(Tiff, f.at + 8, endian) + FieldLength(f) > Len(Tiff)

\* C11: an out-of-line field whose offset is smaller than the bytes consumed
\* up to the end of its header fails the decode with the negative offset
\* error, one whose range leaves the buffer fails it with an offset error;
\* no decoded IFD holds such a field.
C11_BadFieldOffsetFails ==
    /\ \A ij \in DecodedFields : ~OffsetNegative(FieldAt(ij)) /\ ~OffsetPastEnd(FieldAt(ij))
    /\ (epc = "done" /\ EnteredIfd) =>
          \A k \in 1..MaxFields + 1 :
              HeaderReached(lastoff, k) =>
                  /\ OffsetNegative(HeaderAt(lastoff, k)) =>
                        eresult = Err("parse", ": IFD field offset is negative", "")
                  /\ (OffsetPastEnd(HeaderAt(lastoff, k))
                        /\ ~OffsetNegative(HeaderAt(lastoff, k))) =>
                        /\ eresult.status = "err" /\ eresult.kind = "parse"
                        /\ eresult.msg \in {": IFD field offset", ": IFD field data"}

-----------------------------------------------------------------------------
(* Properties of the two byte orders *)

\* C9: the little endian and the big endian encoding of a field set decode
\* to fields with the same to_unsigned, to_rationals and to_ascii.
C9_EndianSymmetry ==
    (pair.big.res = OkResult /\ pair.little.res = OkResult) =>
        \A j \in DOMAIN logical :
            LET b == pair.big.ifds[1].fields[j]
                l == pair.little.ifds[1].fields[j]
            IN  /\ ToUnsigned(b) = ToUnsigned(l)
                /\ ToRationals(b) = ToRationals(l)
                /\ ToAscii(b) = ToAscii(l)

====
